---- MODULE Spec2Model ----
(***************************************************************************)
(* Model of the summary pipeline of youtube-transcript-ai:                 *)
(*   Summary.parseSummaryResponse, Summary.generateSummary,                *)
(*   Summary.generateSummaryStream (src/src/app/services/api.ts) and       *)
(*   App.getTranscript (src/src/app/app.ts).                               *)
(*                                                                         *)
(* Text is a sequence of one-character strings.  A response body is a      *)
(* sequence of tokens: each token is an indivisible run of bytes of the    *)
(* body ("{" and "}" are the brace characters the scanner counts; the      *)
(* other tokens are the JSON fragments between them).                      *)
(***************************************************************************)
EXTENDS Integers, Sequences, FiniteSets, TLC

\* ------------------------------------------------------------------ bounds
\* pieces concatenated to form a response body
MaxPieces == 2
\* text deltas of a text body
MaxDeltas == 3
\* getTranscript / generateSummaryStream calls in one behaviour
MaxSessions == 2
\* chunk reads of a session that are counted
ReadsTracked == 2
\* generateAudio calls followed
MaxAudio == 2
\* media events an element holds undelivered
MaxQueued == 2
\* a click on the progress bar lands on one of the fractions 0/SeekSteps ..
\* SeekSteps/SeekSteps of its width
SeekSteps == 2

\* ------------------------------------------------------------ text helpers
\* \s of the regular expressions and the characters String.trim removes
Whitespace == {" ", "\n", "\t", "\r"}
\* the characters "." does not match
LineTerminators == {"\n", "\r"}

UpperOf ==
  [c \in {"a","c","d","e","g","h","i","l","m","n","r","s","t","u","y"} |->
     CASE c = "a" -> "A" [] c = "c" -> "C" [] c = "d" -> "D" [] c = "e" -> "E"
       [] c = "g" -> "G" [] c = "h" -> "H" [] c = "i" -> "I" [] c = "l" -> "L"
       [] c = "m" -> "M" [] c = "n" -> "N" [] c = "r" -> "R" [] c = "s" -> "S"
       [] c = "t" -> "T" [] c = "u" -> "U" [] c = "y" -> "Y"]

\* case folding of the /i flag
ToUpper(c) == IF c \in DOMAIN UpperOf THEN UpperOf[c] ELSE c

HEADLINE_MARKER == <<"H","E","A","D","L","I","N","E",":">>
SUMMARY_MARKER == <<"S","U","M","M","A","R","Y",":">>

\* the literal part of a pattern matches text at index i, ignoring case
MatchAt(text, i, marker) ==
  /\ i >= 1
  /\ i + Len(marker) - 1 <= Len(text)
  /\ \A k \in 1..Len(marker) : ToUpper(text[i + k - 1]) = marker[k]

RECURSIVE TrimStart(_)
TrimStart(s) ==
  IF s # <<>> /\ Head(s) \in Whitespace THEN TrimStart(Tail(s)) ELSE s

RECURSIVE TrimEnd(_)
TrimEnd(s) ==
  IF s # <<>> /\ s[Len(s)] \in Whitespace
    THEN TrimEnd(SubSeq(s, 1, Len(s) - 1)) ELSE s

\* String.prototype.trim
Trim(s) == TrimEnd(TrimStart(s))

\* length of the whitespace run of text that starts at index p (greedy \s*)
WsRunLen(text, p) ==
  CHOOSE w \in 0..(Len(text) - p + 1) :
    /\ \A j \in p..(p + w - 1) : text[j] \in Whitespace
    /\ (p + w > Len(text) \/ text[p + w] \notin Whitespace)

\* last index of the run of characters "." matches that starts at index q
DotRunEnd(text, q) ==
  CHOOSE r \in (q - 1)..Len(text) :
    /\ \A j \in q..r : text[j] \notin LineTerminators
    /\ (r = Len(text) \/ text[r + 1] \in LineTerminators)

\* (.+?)(?:\n|$) matches at index q: one or more "." characters, then a
\* newline or the end of the text
HeadlineTailMatches(text, q) ==
  /\ q <= Len(text)
  /\ text[q] \notin LineTerminators
  /\ LET r == DotRunEnd(text, q) IN r = Len(text) \/ text[r + 1] = "\n"

\* the numbers k of whitespace characters \s* may keep after a marker that
\* ends at p - 1, such that the rest of the headline pattern then matches
HeadlineSkips(text, p) ==
  {k \in 0..WsRunLen(text, p) : HeadlineTailMatches(text, p + k)}

\* the indices where /HEADLINE:\s*(.+?)(?:\n|$)/i matches
HeadlineMatches(text) ==
  {i \in 1..Len(text) :
     /\ MatchAt(text, i, HEADLINE_MARKER)
     /\ HeadlineSkips(text, i + Len(HEADLINE_MARKER)) # {}}

SetMin(S) == CHOOSE x \in S : \A y \in S : x <= y
SetMax(S) == CHOOSE x \in S : \A y \in S : x >= y

\* group 1 of the leftmost headline match (\s* is greedy: the largest skip)
HeadlineCapture(text) ==
  LET i == SetMin(HeadlineMatches(text))
      p == i + Len(HEADLINE_MARKER)
      q == p + SetMax(HeadlineSkips(text, p))
  IN SubSeq(text, q, DotRunEnd(text, q))

\* the indices where /SUMMARY:\s*([\s\S]+)/i matches: the marker followed by
\* at least one character
SummaryMatches(text) ==
  {i \in 1..Len(text) :
     /\ MatchAt(text, i, SUMMARY_MARKER)
     /\ i + Len(SUMMARY_MARKER) <= Len(text)}

\* group 1 of the leftmost summary match: \s* keeps the whole whitespace run
\* unless that leaves nothing for [\s\S]+, which then takes its last character
SummaryCapture(text) ==
  LET i == SetMin(SummaryMatches(text))
      p == i + Len(SUMMARY_MARKER)
      w == WsRunLen(text, p)
      q == IF p + w <= Len(text) THEN p + w ELSE p + w - 1
  IN SubSeq(text, q, Len(text))

parseSummaryResponseNoFallback(text) ==
  [summary |-> IF SummaryMatches(text) # {}
                 THEN Trim(SummaryCapture(text)) ELSE <<>>,
   headline |-> IF HeadlineMatches(text) # {}
                  THEN Trim(HeadlineCapture(text)) ELSE <<>>]

\* Summary.parseSummaryResponse
parseSummaryResponse(text) ==
  [summary |-> IF SummaryMatches(text) # {}
                 THEN Trim(SummaryCapture(text)) ELSE Trim(text),
   headline |-> IF HeadlineMatches(text) # {}
                  THEN Trim(HeadlineCapture(text)) ELSE <<>>]

\* ------------------------------------------------------ tokens of a body
\* "{" and "}" are the brace bytes.  CAND is the fragment that makes an object
\* a provider record ("candidates":[ ... ]), STOP the fragment
\* "finishReason":"STOP", NULL a null entry of the parts array, BAD a fragment
\* that is not JSON (a stray comma, a bare word).  LEAD and CONT are the two
\* bytes of a two-byte UTF-8 character; E_ACUTE is that character and FFFD
\* the replacement character.  Every other token is the content of a text
\* string: a run of characters given by TextOf.  Q{ and Q} are a brace
\* character inside a string value: text to JSON.parse, a brace to the scanner.
Structural == {"{", "}", "CAND", "STOP", "NULL", "BAD"}

\* the characters buffer[i] === '{' and buffer[i] === '}' hold for
OpenBraces == {"{", "Q{"}
CloseBraces == {"}", "Q}"}

Fragments ==
  ("HEAD" :> <<"H","E","A","D">>) @@
  ("LINE:" :> <<"L","I","N","E",":">>) @@
  ("SUM" :> <<"S","U","M">>) @@
  ("MARY:" :> <<"M","A","R","Y",":">>) @@
  ("summary:" :> <<"s","u","m","m","a","r","y",":">>) @@
  ("LINE: Cats\n\nSUMMARY:\nCats " :>
     <<"L","I","N","E",":"," ","C","a","t","s","\n","\n",
       "S","U","M","M","A","R","Y",":","\n","C","a","t","s"," ">>) @@
  ("are great." :> <<"a","r","e"," ","g","r","e","a","t",".">>) @@
  ("Q{" :> <<"{">>) @@
  ("Q}" :> <<"}">>)

\* the characters of a text token
TextOf(tok) == IF tok \in DOMAIN Fragments THEN Fragments[tok] ELSE <<tok>>

RECURSIVE TextOfAll(_)
TextOfAll(toks) ==
  IF toks = <<>> THEN <<>> ELSE TextOf(Head(toks)) \o TextOfAll(Tail(toks))

\* ------------------------------------------------------------ chunk decoder
\* TextDecoder.decode(value, {stream: true}): pending is TRUE when the last
\* chunk ended on the lead byte of a two-byte character
RECURSIVE DecodeFrom(_, _, _)
DecodeFrom(bytes, pending, out) ==
  IF bytes = <<>> THEN [text |-> out, pending |-> pending]
  ELSE LET b == Head(bytes) IN
    IF pending
      THEN IF b = "CONT"
             THEN DecodeFrom(Tail(bytes), FALSE, Append(out, "E_ACUTE"))
             ELSE DecodeFrom(bytes, FALSE, Append(out, "FFFD"))
      ELSE IF b = "LEAD" THEN DecodeFrom(Tail(bytes), TRUE, out)
      ELSE IF b = "CONT" THEN DecodeFrom(Tail(bytes), FALSE, Append(out, "FFFD"))
      ELSE DecodeFrom(Tail(bytes), FALSE, Append(out, b))

Decode(bytes, pending) == DecodeFrom(bytes, pending, <<>>)

\* -------------------------------------------------------- object reassembler
\* buffer.indexOf('{', startIndex), 1-based; 0 when there is none
IndexOfBrace(buffer, startIndex) ==
  LET opens == {i \in startIndex..Len(buffer) : buffer[i] \in OpenBraces}
  IN IF opens = {} THEN 0 ELSE SetMin(opens)

\* braceCount after the characters objStart..i
BraceCount(buffer, objStart, i) ==
  Cardinality({j \in objStart..i : buffer[j] \in OpenBraces})
    - Cardinality({j \in objStart..i : buffer[j] \in CloseBraces})

\* index of the brace that brings braceCount back to zero; 0 when the buffer
\* ends first (objEnd = -1)
MatchingEnd(buffer, objStart) ==
  LET closes == {i \in objStart..Len(buffer) :
                   /\ buffer[i] \in CloseBraces
                   /\ BraceCount(buffer, objStart, i) = 0}
  IN IF closes = {} THEN 0 ELSE SetMin(closes)

\* the object braces open after the tokens 1..i of a span, the braces inside
\* strings not counted
Depth(span, i) ==
  Cardinality({j \in 1..i : span[j] = "{"})
    - Cardinality({j \in 1..i : span[j] = "}"})

\* JSON.parse succeeds on a span: it is one object, from its opening brace to
\* the brace that closes it, and holds no fragment that is not JSON
JSONValid(span) ==
  /\ \A k \in 1..Len(span) : span[k] # "BAD"
  /\ span # <<>>
  /\ span[1] = "{"
  /\ \A i \in 1..(Len(span) - 1) : Depth(span, i) > 0
  /\ Depth(span, Len(span)) = 0

NullPart == <<"NULL">>

\* index of the "}" closing the part opened at i, when only text lies between
PartEnd(span, i) ==
  LET ends == {j \in (i + 1)..(Len(span) - 1) :
                 /\ span[j] = "}"
                 /\ \A k \in (i + 1)..(j - 1) : span[k] \notin Structural}
  IN IF ends = {} THEN 0 ELSE SetMin(ends)

\* the entries of candidates[0].content.parts and candidates[0].finishReason,
\* read from index i of a span "{" CAND part* [STOP] "}"; a string outside
\* the parts is a field the handler does not read
RECURSIVE ReadParts(_, _, _)
ReadParts(span, i, parts) ==
  LET t == span[i] IN
  IF i = Len(span) THEN [ok |-> TRUE, parts |-> parts, stop |-> FALSE]
  ELSE IF t = "STOP"
    THEN [ok |-> i + 1 = Len(span), parts |-> parts, stop |-> TRUE]
  ELSE IF t = "NULL" THEN ReadParts(span, i + 1, Append(parts, NullPart))
  ELSE IF t \in {"Q{", "Q}"} THEN ReadParts(span, i + 1, parts)
  ELSE IF t = "{" /\ PartEnd(span, i) # 0
    THEN ReadParts(span, PartEnd(span, i) + 1,
                   Append(parts, TextOfAll(SubSeq(span, i + 1, PartEnd(span, i) - 1))))
  ELSE [ok |-> FALSE, parts |-> <<>>, stop |-> FALSE]

JSONParseNoStop(span) ==
  LET r == IF Len(span) >= 3 /\ span[2] = "CAND"
             THEN ReadParts(span, 3, <<>>)
             ELSE [ok |-> FALSE, parts |-> <<>>, stop |-> FALSE]
  IN IF r.ok THEN [parts |-> r.parts, stop |-> FALSE]
     ELSE [parts |-> <<>>, stop |-> FALSE]

\* what the handler reads from a parsed object: the parts of a provider
\* record and whether it carries finishReason STOP; an object of any other
\* shape has neither
JSONParse(span) ==
  LET r == IF Len(span) >= 3 /\ span[2] = "CAND"
             THEN ReadParts(span, 3, <<>>)
             ELSE [ok |-> FALSE, parts |-> <<>>, stop |-> FALSE]
  IN IF r.ok THEN [parts |-> r.parts, stop |-> r.stop]
     ELSE [parts |-> <<>>, stop |-> FALSE]

\* the loop over textParts: every non-empty text is appended to fullText and
\* the re-derived result is emitted; a null entry throws
RECURSIVE EmitParts(_, _, _)
EmitParts(parts, fullText, emitted) ==
  IF parts = <<>>
    THEN [fullText |-> fullText, emitted |-> emitted, threw |-> FALSE]
  ELSE IF Head(parts) = NullPart
    THEN [fullText |-> fullText, emitted |-> emitted, threw |-> TRUE]
  ELSE IF Head(parts) = <<>> THEN EmitParts(Tail(parts), fullText, emitted)
  ELSE EmitParts(Tail(parts), fullText \o Head(parts),
                 Append(emitted, parseSummaryResponse(fullText \o Head(parts))))

\* the inner while loop of generateSummaryStream over the buffer, from
\* startIndex (1-based): the buffer and fullText it leaves, the results it
\* emits, and whether it ended the stream on a STOP record
RECURSIVE ScanBuffer(_, _, _, _)
ScanBuffer(buffer, startIndex, fullText, emitted) ==
  LET objStart == IndexOfBrace(buffer, startIndex)
      objEnd == MatchingEnd(buffer, objStart)
      span == SubSeq(buffer, objStart, objEnd)
      r == EmitParts(JSONParse(span).parts, fullText, emitted)
  IN
  IF objStart = 0 \/ objEnd = 0
    THEN [buffer |-> buffer, fullText |-> fullText, emitted |-> emitted,
          finished |-> FALSE]
  ELSE IF ~JSONValid(span)
    THEN ScanBuffer(buffer, objStart + 1, fullText, emitted)
  ELSE IF r.threw
    THEN ScanBuffer(buffer, objStart + 1, r.fullText, r.emitted)
  ELSE IF JSONParse(span).stop
    THEN [buffer |-> buffer, fullText |-> r.fullText, emitted |-> r.emitted,
          finished |-> TRUE]
  ELSE ScanBuffer(SubSeq(buffer, objEnd + 1, Len(buffer)), 1,
                  r.fullText, r.emitted)

ScanIterationNoAdvance(buffer, startIndex, fullText) ==
  LET objStart == IndexOfBrace(buffer, startIndex)
      objEnd == MatchingEnd(buffer, objStart)
      span == SubSeq(buffer, objStart, objEnd)
      r == EmitParts(JSONParse(span).parts, fullText, <<>>)
      same == [buffer |-> buffer, startIndex |-> startIndex,
               fullText |-> fullText, emitted |-> <<>>, exit |-> "continue"]
  IN
  IF objStart = 0 \/ objEnd = 0 THEN [same EXCEPT !.exit = "wait"]
  ELSE IF ~JSONValid(span) THEN [same EXCEPT !.startIndex = objStart]
  ELSE IF r.threw
    THEN [same EXCEPT !.startIndex = objStart, !.fullText = r.fullText,
                      !.emitted = r.emitted]
  ELSE IF JSONParse(span).stop
    THEN [same EXCEPT !.fullText = r.fullText, !.emitted = r.emitted,
                      !.exit = "finished"]
  ELSE [buffer |-> SubSeq(buffer, objEnd + 1, Len(buffer)), startIndex |-> 1,
        fullText |-> r.fullText, emitted |-> r.emitted, exit |-> "continue"]

ScanIterationOneRecord(buffer, startIndex, fullText) ==
  LET objStart == IndexOfBrace(buffer, startIndex)
      objEnd == MatchingEnd(buffer, objStart)
      span == SubSeq(buffer, objStart, objEnd)
      r == EmitParts(JSONParse(span).parts, fullText, <<>>)
      same == [buffer |-> buffer, startIndex |-> startIndex,
               fullText |-> fullText, emitted |-> <<>>, exit |-> "continue"]
  IN
  IF objStart = 0 \/ objEnd = 0 THEN [same EXCEPT !.exit = "wait"]
  ELSE IF ~JSONValid(span) THEN [same EXCEPT !.startIndex = objStart + 1]
  ELSE IF r.threw
    THEN [same EXCEPT !.startIndex = objStart + 1, !.fullText = r.fullText,
                      !.emitted = r.emitted]
  ELSE IF JSONParse(span).stop
    THEN [same EXCEPT !.fullText = r.fullText, !.emitted = r.emitted,
                      !.exit = "finished"]
  ELSE [buffer |-> SubSeq(buffer, objEnd + 1, Len(buffer)), startIndex |-> 1,
        fullText |-> r.fullText, emitted |-> r.emitted, exit |-> "wait"]

\* one pass of the inner while loop, from startIndex (1-based): the buffer,
\* startIndex and fullText it leaves, the results it emits, and how it ends:
\* the loop goes on ("continue"), the loop is left for the next read ("wait"),
\* or the handler returns on a STOP record ("finished")
ScanIteration(buffer, startIndex, fullText) ==
  LET objStart == IndexOfBrace(buffer, startIndex)
      objEnd == MatchingEnd(buffer, objStart)
      span == SubSeq(buffer, objStart, objEnd)
      r == EmitParts(JSONParse(span).parts, fullText, <<>>)
      same == [buffer |-> buffer, startIndex |-> startIndex,
               fullText |-> fullText, emitted |-> <<>>, exit |-> "continue"]
  IN
  IF objStart = 0 \/ objEnd = 0 THEN [same EXCEPT !.exit = "wait"]
  ELSE IF ~JSONValid(span) THEN [same EXCEPT !.startIndex = objStart + 1]
  ELSE IF r.threw
    THEN [same EXCEPT !.startIndex = objStart + 1, !.fullText = r.fullText,
                      !.emitted = r.emitted]
  ELSE IF JSONParse(span).stop
    THEN [same EXCEPT !.fullText = r.fullText, !.emitted = r.emitted,
                      !.exit = "finished"]
  ELSE [buffer |-> SubSeq(buffer, objEnd + 1, Len(buffer)), startIndex |-> 1,
        fullText |-> r.fullText, emitted |-> r.emitted, exit |-> "continue"]

ProcessChunkDropTail(st, chunk) ==
  LET d == Decode(chunk, st.pending)
      sc == ScanBuffer(d.text, 1, st.fullText, <<>>)
  IN [buffer |-> <<>>, fullText |-> sc.fullText, pending |-> d.pending,
      emitted |-> sc.emitted, finished |-> sc.finished]

\* one iteration of the read loop on a chunk that is not the end of stream:
\* decode, append to the buffer, scan
ProcessChunk(st, chunk) ==
  LET d == Decode(chunk, st.pending)
      sc == ScanBuffer(st.buffer \o d.text, 1, st.fullText, <<>>)
  IN [buffer |-> sc.buffer, fullText |-> sc.fullText, pending |-> d.pending,
      emitted |-> sc.emitted, finished |-> sc.finished]

\* the reader state when the read loop starts
StreamStart == [buffer |-> <<>>, fullText |-> <<>>, pending |-> FALSE,
                emitted |-> <<>>, finished |-> FALSE]

\* --------------------------------------------------------------- messages
NoTranscriptSummary ==
  <<"N","o"," ","t","r","a","n","s","c","r","i","p","t"," ",
    "a","v","a","i","l","a","b","l","e",".">>
NoGeminiKeyMsg ==
  "Gemini API key not found. Please set your Gemini API key in settings."
SummaryFailedMsg == "Failed to generate summary with Gemini AI"
InvalidResponseMsg == "Invalid response from Gemini API"
NoScrapeKeyMsg == "Please set your Scrape Creators API key in settings."
NoUrlMsg == "Please enter a YouTube URL"
InvalidUrlMsg == "Invalid YouTube URL or video ID"
TranscriptFailedMsg ==
  "Failed to fetch transcript. Please check your API key and try again."

\* --------------------------------------------------- bodies and responses
Cat3(a, b, c) == a \o b \o c

\* a provider record with one text part
TextRecord(tok) == <<"{", "CAND", "{", tok, "}", "}">>

\* the pieces response bodies are made of: a record, a STOP record, a record
\* with a two-byte character, a record with a null part, a record with a
\* null part and braces in its strings, an object that is no provider
\* record, and the malformed fragments
StopRecord == <<"{", "CAND", "{", "c", "}", "STOP", "}">>

\* fragments that are not JSON: balanced, with an unmatched opening brace,
\* with an unmatched closing brace, without braces
MalformedFragments == { <<"{", "BAD", "}">>, <<"{", "BAD">>, <<"BAD", "}">>, <<"BAD">> }

Pieces ==
  { TextRecord("a"), StopRecord,
    <<"{", "CAND", "{", "LEAD", "CONT", "}", "}">>,
    <<"{", "CAND", "{", "a", "}", "NULL", "}">>,
    <<"{", "CAND", "{", "Q{", "}", "NULL", "Q}", "}">>,
    <<"{", "a", "}">> }
    \cup MalformedFragments

\* a malformed fragment between two valid records
SandwichBodies ==
  {Cat3(TextRecord("a"), f, TextRecord("b")) : f \in MalformedFragments}

\* the text deltas of the bodies that exercise parseSummaryResponse
TextDeltas == {"HEAD", "LINE:", "SUM", "MARY:", "summary:", " ", "\n", "a"}

RECURSIVE Concat(_)
Concat(seqs) == IF seqs = <<>> THEN <<>> ELSE Head(seqs) \o Concat(Tail(seqs))

SeqsUpTo(S, n) == UNION {[1..k -> S] : k \in 0..n}

\* the response of the scenario: three deltas as three provider records
ScenarioBody ==
  Cat3(TextRecord("HEAD"), TextRecord("LINE: Cats\n\nSUMMARY:\nCats "),
       TextRecord("are great."))

\* the bodies a streaming response may carry
Bodies ==
  {Concat(ps) : ps \in SeqsUpTo(Pieces, MaxPieces)}
    \cup SandwichBodies \cup {ScenarioBody}

\* bodies of text records, one delta each
TextBodies ==
  {Concat([i \in DOMAIN ds |-> TextRecord(ds[i])]) :
     ds \in SeqsUpTo(TextDeltas, MaxDeltas)}

\* the bodies of the sessions of the component
SmallBodies ==
  { TextRecord("a") \o StopRecord, <<"{", "BAD", "}">> }

\* the text of a successful single-shot response
SingleShotTexts ==
  { TextOfAll(<<"HEAD", "LINE:", " ", "a", "\n", "SUM", "MARY:", "b">>) }

VARIABLES storage, app, sessions, audio

vars == <<storage, app, sessions, audio>>

SessionIds == 1..MaxSessions

\* -------------------------------------------------------------- the subject
NextEv(r) == [type |-> "next", result |-> r, message |-> ""]
CompleteEv ==
  [type |-> "complete", result |-> [summary |-> <<>>, headline |-> <<>>],
   message |-> ""]
ErrorEv(msg) ==
  [type |-> "error", result |-> [summary |-> <<>>, headline |-> <<>>],
   message |-> msg]

RECURSIVE NextEvents(_)
NextEvents(results) ==
  IF results = <<>> THEN <<>>
  ELSE <<NextEv(Head(results))>> \o NextEvents(Tail(results))

IsTerminalEv(e) == e.type # "next"

\* what a subscriber gets of the notifications the Subject sent before it
\* subscribed: the values are gone, a terminal notification is repeated
Subscribe(events) == SelectSeq(events, IsTerminalEv)

\* -------------------------------------------------- Summary.generateSummary
GenerateSummaryStartNoKeyCheck(transcriptEmpty, hasKey) ==
  IF transcriptEmpty THEN "placeholder" ELSE "request"

\* generateSummary up to its await: the placeholder for an empty transcript,
\* a rejection without the Gemini key, the HTTP request otherwise
GenerateSummaryStart(transcriptEmpty, hasKey) ==
  IF transcriptEmpty THEN "placeholder"
  ELSE IF ~hasKey THEN "rejected"
  ELSE "request"

Placeholder == [summary |-> NoTranscriptSummary, headline |-> <<>>]

\* the ways the single-shot request ends
SingleShotOutcomes == {"text", "invalid", "httpError"}

\* --------------------------------------------------------- session records
NoSession ==
  [owner |-> "none", phase |-> "idle", transcriptEmpty |-> FALSE,
   body |-> <<>>, rest |-> <<>>, buffer |-> <<>>, fullText |-> <<>>,
   pending |-> FALSE, startIndex |-> 0, reads |-> 0,
   atRead |-> [buffer |-> <<>>, fullText |-> <<>>, received |-> <<>>],
   received |-> <<>>, terminal |-> "none",
   cause |-> "none", partial |-> <<>>,
   streamRequests |-> 0, singleRequests |-> 0, compFallback |-> "none"]

\* the .catch handler of generateSummaryStream: the single-shot fallback
StreamCatch(sess0, hasKey) ==
  LET g == GenerateSummaryStart(sess0.transcriptEmpty, hasKey)
      \* the reader, buffer and fullText of the handler that threw are gone
      sess == [sess0 EXCEPT !.rest = <<>>, !.buffer = <<>>,
                            !.fullText = <<>>, !.pending = FALSE]
  IN
  CASE g = "request" ->
         [sess |-> [sess EXCEPT !.phase = "singleShot",
                                !.singleRequests = @ + 1],
          events |-> <<>>]
    [] g = "rejected" ->
         [sess |-> [sess EXCEPT !.phase = "closed"],
          events |-> <<ErrorEv(NoGeminiKeyMsg)>>]
    [] g = "placeholder" ->
         [sess |-> [sess EXCEPT !.phase = "closed"],
          events |-> <<NextEv(Placeholder), CompleteEv>>]

ComponentErrorKeepsFlag(a, sess, hasKey) ==
  LET g == GenerateSummaryStart(sess.transcriptEmpty, hasKey) IN
  CASE g = "request" ->
         [app |-> a,
          sess |-> [sess EXCEPT !.compFallback = "pending",
                                !.singleRequests = @ + 1]]
    [] g = "rejected" ->
         [app |-> [a EXCEPT !.error = NoGeminiKeyMsg],
          sess |-> [sess EXCEPT !.compFallback = "done"]]
    [] g = "placeholder" ->
         [app |-> [a EXCEPT !.summary = Placeholder.summary,
                            !.headline = Placeholder.headline,
                            !.generatingSummary = FALSE],
          sess |-> [sess EXCEPT !.compFallback = "done"]]

\* the error callback of the component: its own single-shot fallback
ComponentError(a, sess, hasKey) ==
  LET g == GenerateSummaryStart(sess.transcriptEmpty, hasKey) IN
  CASE g = "request" ->
         [app |-> a,
          sess |-> [sess EXCEPT !.compFallback = "pending",
                                !.singleRequests = @ + 1]]
    [] g = "rejected" ->
         [app |-> [a EXCEPT !.error = NoGeminiKeyMsg,
                            !.generatingSummary = FALSE],
          sess |-> [sess EXCEPT !.compFallback = "done"]]
    [] g = "placeholder" ->
         [app |-> [a EXCEPT !.summary = Placeholder.summary,
                            !.headline = Placeholder.headline,
                            !.generatingSummary = FALSE],
          sess |-> [sess EXCEPT !.compFallback = "done"]]

\* one notification reaching the subscriber of a session: the direct consumer
\* records it; the component runs its next / error / complete callback
DeliverOne(a, sess, hasKey, e) ==
  LET logged ==
        IF e.type = "next"
          THEN [sess EXCEPT !.received = Append(@, e.result)]
          ELSE [sess EXCEPT !.terminal = e.type]
  IN
  IF sess.owner # "app" THEN [app |-> a, sess |-> logged]
  ELSE CASE e.type = "next" ->
              [app |-> [a EXCEPT !.summary = e.result.summary,
                                 !.headline = e.result.headline],
               sess |-> logged]
         [] e.type = "complete" ->
              [app |-> [a EXCEPT !.generatingSummary = FALSE], sess |-> logged]
         [] e.type = "error" -> ComponentError(a, logged, hasKey)

RECURSIVE Deliver(_, _, _, _)
Deliver(a, sess, hasKey, events) ==
  IF events = <<>> THEN [app |-> a, sess |-> sess]
  ELSE LET d == DeliverOne(a, sess, hasKey, Head(events))
       IN Deliver(d.app, d.sess, hasKey, Tail(events))

\* generateSummaryStream up to its return, followed by the caller's
\* subscribe: the session it leaves and the notifications the subscriber gets
StartStream(sess, hasKey) ==
  IF sess.transcriptEmpty
    THEN [sess |-> [sess EXCEPT !.phase = "closed"],
          events |-> Subscribe(<<NextEv(Placeholder), CompleteEv>>)]
  ELSE IF ~hasKey
    THEN [sess |-> [sess EXCEPT !.phase = "closed"],
          events |-> Subscribe(<<ErrorEv(NoGeminiKeyMsg)>>)]
  ELSE [sess |-> [sess EXCEPT !.phase = "fetch", !.streamRequests = @ + 1],
        events |-> <<>>]

Last(seq) == seq[Len(seq)]

\* ------------------------------------------------------------------- Init
\* ------------------------------------------------------------------ audio
\* the generateAudio calls of the model; call c creates the artifact c
AudioIds == 1..MaxAudio

PlayFailedMsg == "Failed to play audio. Please try again."
AudioFailedMsg == "Failed to generate audio. Please try again."
NoTogetherKeyMsg ==
  "Together.ai API key not found. Please set your API key in settings."
MetadataFailedMsg == "Failed to load audio metadata"
\* the message of the exception a failing media-session call throws
MediaSessionFailedMsg == "MediaMetadata is not a constructor"

\* the platform: navigator.mediaSession is absent, is present, or is present
\* with a MediaMetadata constructor or a setActionHandler that throws
MediaSessions == {"absent", "present", "throws"}

\* one generateAudio call and the Audio element it creates: where the call
\* stands, whether playSpeech awaits it, and the element with its object URL,
\* its handlers and the media events queued for it
NoAudio ==
  [pc |-> "unused", viaPlay |-> FALSE, created |-> FALSE, revoked |-> FALSE,
   paused |-> TRUE, metadata |-> FALSE, errored |-> FALSE,
   handlers |-> "none", position |-> 0, queue |-> <<>>]

\* the elements, the media session of the platform with its playbackState,
\* and the number of synthesis requests issued
AudioInit ==
  [els |-> [c \in AudioIds |-> NoAudio], session |-> "present",
   playbackState |-> "none", requests |-> 0]

\* navigator.mediaSession.playbackState = v, where there is a media session
SetPlaybackState(au, v) ==
  IF au.session = "absent" THEN au ELSE [au EXCEPT !.playbackState = v]

\* HTMLMediaElement.play(): a paused element starts and a play event is
\* queued; a request that is not allowed changes nothing
ElementPlay(el, granted) ==
  IF granted /\ el.paused
    THEN [el EXCEPT !.paused = FALSE, !.queue = Append(@, "play")]
    ELSE el

\* HTMLMediaElement.pause(): a playing element pauses and a pause event is
\* queued
ElementPause(el) ==
  IF el.paused THEN el
  ELSE [el EXCEPT !.paused = TRUE, !.queue = Append(@, "pause")]

\* audio.duration of the element of call c, in ticks: the tracks differ in
\* length
Duration(c) == 2 * c

\* the seek of an element: a position past the end of the track is its end
ElementSeek(el, c, newTime) ==
  [el EXCEPT !.position = IF newTime > Duration(c) THEN Duration(c)
                          ELSE newTime]

\* App.seekAudio for a click at the fraction f / SeekSteps of the bar
seekAudio(a, au, f) ==
  IF a.currentAudio = 0 \/ a.duration = 0 THEN [app |-> a, audio |-> au]
  ELSE LET newTime == (f * a.duration) \div SeekSteps IN
       [app |-> [a EXCEPT !.currentTime = newTime],
        audio |-> [au EXCEPT !.els[a.currentAudio] =
                     ElementSeek(@, a.currentAudio, newTime)]]

\* App.stopTimeUpdate
stopTimeUpdate(a) == [a EXCEPT !.timeUpdateInterval = FALSE]

\* App.startTimeUpdate
startTimeUpdate(a) == [stopTimeUpdate(a) EXCEPT !.timeUpdateInterval = TRUE]

stopSpeechKeepTimer(a, au) ==
  LET cur == a.currentAudio
      els == IF cur = 0 THEN au.els
             ELSE [au.els EXCEPT ![cur] =
                     [ElementPause(@) EXCEPT !.position = 0, !.revoked = TRUE]]
  IN [app |-> [a EXCEPT !.currentAudio = 0, !.isSpeaking = FALSE,
                        !.isPaused = FALSE, !.generatingAudio = FALSE,
                        !.currentTime = 0, !.hasAudio = FALSE],
      audio |-> [au EXCEPT !.els = els]]

\* App.stopSpeech
stopSpeech(a, au) ==
  LET cur == a.currentAudio
      els == IF cur = 0 THEN au.els
             ELSE [au.els EXCEPT ![cur] =
                     [ElementPause(@) EXCEPT !.position = 0, !.revoked = TRUE]]
  IN [app |-> stopTimeUpdate(
                [a EXCEPT !.currentAudio = 0, !.isSpeaking = FALSE,
                          !.isPaused = FALSE, !.generatingAudio = FALSE,
                          !.currentTime = 0, !.hasAudio = FALSE]),
      audio |-> [au EXCEPT !.els = els]]

pauseSpeechStops(a, au) == stopSpeech(a, au)

pauseSpeechAnyState(a, au) ==
  IF a.currentAudio # 0
    THEN [app |-> [a EXCEPT !.isPaused = TRUE],
          audio |-> [au EXCEPT !.els[a.currentAudio] = ElementPause(@)]]
    ELSE [app |-> a, audio |-> au]

\* App.pauseSpeech
pauseSpeech(a, au) ==
  IF a.currentAudio # 0 /\ a.isSpeaking /\ ~a.isPaused
    THEN [app |-> [a EXCEPT !.isPaused = TRUE],
          audio |-> [au EXCEPT !.els[a.currentAudio] = ElementPause(@)]]
    ELSE [app |-> a, audio |-> au]

\* App.resumeSpeech; isPaused is cleared when the play request is fulfilled:
\* with the play event of an element that was paused, at once for an element
\* that plays already
resumeSpeech(a, au, granted) ==
  IF a.currentAudio # 0 /\ a.isPaused
    THEN IF granted /\ ~au.els[a.currentAudio].paused
           THEN [app |-> [a EXCEPT !.isPaused = FALSE], audio |-> au]
           ELSE [app |-> a,
                 audio |-> [au EXCEPT !.els[a.currentAudio] =
                                         ElementPlay(@, granted)]]
    ELSE [app |-> a, audio |-> au]

\* audio.onplay
onplay(a, au) ==
  [app |-> startTimeUpdate([a EXCEPT !.isSpeaking = TRUE, !.isPaused = FALSE,
                                     !.generatingAudio = FALSE]),
   audio |-> SetPlaybackState(au, "playing")]

\* audio.onpause
onpause(a, au) ==
  [app |-> stopTimeUpdate([a EXCEPT !.isPaused = TRUE]),
   audio |-> SetPlaybackState(au, "paused")]

onendedKeepAudio(a, au, c) ==
  [app |-> stopTimeUpdate([a EXCEPT !.isSpeaking = FALSE, !.isPaused = FALSE,
                                    !.currentTime = 0]),
   audio |-> [SetPlaybackState(au, "none") EXCEPT !.els[c].revoked = TRUE]]

\* audio.onended of the element c
onended(a, au, c) ==
  [app |-> stopTimeUpdate([a EXCEPT !.isSpeaking = FALSE, !.isPaused = FALSE,
                                    !.currentTime = 0, !.currentAudio = 0,
                                    !.hasAudio = FALSE]),
   audio |-> [SetPlaybackState(au, "none") EXCEPT !.els[c].revoked = TRUE]]

\* audio.onerror of the element c, as installed after the metadata wait
onerror(a, au, c) ==
  [app |-> stopTimeUpdate([a EXCEPT !.isSpeaking = FALSE, !.isPaused = FALSE,
                                    !.generatingAudio = FALSE,
                                    !.currentAudio = 0, !.hasAudio = FALSE,
                                    !.error = PlayFailedMsg]),
   audio |-> [au EXCEPT !.els[c].revoked = TRUE]]

AppInit ==
  [loading |-> FALSE, fetchingTranscript |-> FALSE,
   generatingSummary |-> FALSE, transcriptData |-> "null",
   summary |-> <<>>, headline |-> <<>>, error |-> "",
   showSettings |-> FALSE, creditsRemaining |-> "null",
   showApiKeyPrompt |-> FALSE, promptStep |-> 1,
   tempScrapeApiKey |-> <<>>, tempGeminiApiKey |-> <<>>,
   tempTogetherApiKey |-> <<>>,
   isSpeaking |-> FALSE, isPaused |-> FALSE, generatingAudio |-> FALSE,
   currentTime |-> 0, duration |-> 0, hasAudio |-> FALSE,
   currentAudio |-> 0, timeUpdateInterval |-> FALSE]

\* localStorage holds whatever earlier runs left in it
Init ==
  /\ storage \in [apiKey : BOOLEAN, geminiKey : BOOLEAN, togetherKey : {TRUE},
                  credits : {"null", "none", "some"}]
  /\ app = AppInit
  /\ sessions = [s \in SessionIds |-> NoSession]
  /\ audio = AudioInit

\* ------------------------------------------------- first-launch key prompt
\* Storage.hasApiKey, hasGeminiApiKey, hasTogetherApiKey, hasAllApiKeys
hasApiKey(st) == st.apiKey
hasGeminiApiKey(st) == st.geminiKey
hasTogetherApiKey(st) == st.togetherKey
hasAllApiKeys(st) ==
  hasApiKey(st) /\ hasGeminiApiKey(st) /\ hasTogetherApiKey(st)

\* App.loadCredits
loadCredits(a, st) == [a EXCEPT !.creditsRemaining = st.credits]

\* App.ngOnInit: the prompt opens at the first key that is missing
ngOnInit(a, st) ==
  IF ~hasAllApiKeys(st)
    THEN [a EXCEPT !.showApiKeyPrompt = TRUE,
                   !.promptStep = IF ~hasApiKey(st) THEN 1
                                  ELSE IF ~hasGeminiApiKey(st) THEN 2
                                  ELSE 3]
    ELSE loadCredits(a, st)

\* what the user may type into a field of the prompt
KeyInputs == {<<>>, <<" ">>, <<"k">>}

\* App.saveInitialApiKey
saveInitialApiKey(a, st) ==
  IF a.promptStep = 1
    THEN IF Trim(a.tempScrapeApiKey) # <<>>
           THEN [app |-> [a EXCEPT !.promptStep = 2,
                                   !.tempScrapeApiKey = <<>>],
                 storage |-> [st EXCEPT !.apiKey = TRUE]]
           ELSE [app |-> a, storage |-> st]
  ELSE IF a.promptStep = 2
    THEN IF Trim(a.tempGeminiApiKey) # <<>>
           THEN [app |-> [a EXCEPT !.promptStep = 3,
                                   !.tempGeminiApiKey = <<>>],
                 storage |-> [st EXCEPT !.geminiKey = TRUE]]
           ELSE [app |-> a, storage |-> st]
  ELSE IF a.promptStep = 3
    THEN IF Trim(a.tempTogetherApiKey) # <<>>
           THEN LET st1 == [st EXCEPT !.togetherKey = TRUE] IN
                [app |-> [loadCredits([a EXCEPT !.showApiKeyPrompt = FALSE],
                                      st1)
                            EXCEPT !.tempTogetherApiKey = <<>>],
                 storage |-> st1]
           ELSE [app |-> a, storage |-> st]
  ELSE [app |-> a, storage |-> st]

skipStepForward(a) ==
  IF a.promptStep = 1 THEN [a EXCEPT !.promptStep = 2]
  ELSE IF a.promptStep = 2 THEN [a EXCEPT !.promptStep = 3]
  ELSE a

\* App.skipStep: back to the step before
skipStep(a) ==
  IF a.promptStep = 2 THEN [a EXCEPT !.promptStep = 1]
  ELSE IF a.promptStep = 3 THEN [a EXCEPT !.promptStep = 2]
  ELSE a

\* the user edits the field of the step the prompt shows
TypeKey(input) ==
  /\ app.showApiKeyPrompt
  /\ app' = IF app.promptStep = 1 THEN [app EXCEPT !.tempScrapeApiKey = input]
            ELSE IF app.promptStep = 2
              THEN [app EXCEPT !.tempGeminiApiKey = input]
            ELSE [app EXCEPT !.tempTogetherApiKey = input]
  /\ UNCHANGED <<storage, sessions, audio>>

SaveInitialApiKey ==
  LET r == saveInitialApiKey(app, storage) IN
  /\ app' = r.app
  /\ storage' = r.storage
  /\ UNCHANGED <<sessions, audio>>

SkipStep ==
  /\ app' = skipStep(app)
  /\ UNCHANGED <<storage, sessions, audio>>

\* the next call takes the first unused session
Unused(s) ==
  /\ sessions[s].owner = "none"
  /\ \A t \in SessionIds : t < s => sessions[t].owner # "none"

\* the session after a step of its stream, and the component after the
\* callbacks the step's notifications run
Step(s, sess, events) ==
  LET d == Deliver(app, sess, storage.geminiKey, events) IN
  /\ app' = d.app
  /\ sessions' = [sessions EXCEPT ![s] = d.sess]
  /\ UNCHANGED <<storage, audio>>

\* ---------------------------------------------------------------- storage
\* Settings.saveGeminiApiKey / App.saveInitialApiKey store a Gemini key
SaveGeminiKey ==
  /\ ~storage.geminiKey
  /\ storage' = [storage EXCEPT !.geminiKey = TRUE]
  /\ UNCHANGED <<app, sessions, audio>>

\* localStorage is cleared from outside the application
ClearGeminiKey ==
  /\ storage.geminiKey
  /\ storage' = [storage EXCEPT !.geminiKey = FALSE]
  /\ UNCHANGED <<app, sessions, audio>>

\* ------------------------------------------------------- direct consumers
\* a consumer calls generateSummaryStream and subscribes to what it returns
DirectCall(s, transcriptEmpty) ==
  /\ Unused(s)
  /\ LET st == StartStream([NoSession EXCEPT !.owner = "direct",
                                             !.transcriptEmpty = transcriptEmpty],
                           storage.geminiKey)
     IN Step(s, st.sess, st.events)

\* a consumer calls generateSummary and awaits its promise
DirectGenerateSummary(s, transcriptEmpty) ==
  /\ Unused(s)
  /\ LET sess == [NoSession EXCEPT !.owner = "single",
                                   !.transcriptEmpty = transcriptEmpty]
         g == GenerateSummaryStart(transcriptEmpty, storage.geminiKey)
     IN CASE g = "request" ->
               Step(s, [sess EXCEPT !.phase = "singleShot",
                                    !.singleRequests = @ + 1], <<>>)
          [] g = "rejected" ->
               Step(s, [sess EXCEPT !.phase = "closed"],
                    <<ErrorEv(NoGeminiKeyMsg)>>)
          [] g = "placeholder" ->
               Step(s, [sess EXCEPT !.phase = "closed"],
                    <<NextEv(Placeholder), CompleteEv>>)

\* --------------------------------------------------- generateSummaryStream
\* fetch resolves with a successful response that has a body stream
FetchResponds(s, bodies) ==
  /\ sessions[s].phase = "fetch"
  /\ \E body \in bodies :
       Step(s, [sessions[s] EXCEPT !.phase = "read", !.body = body,
                                   !.rest = body], <<>>)

\* fetch resolves with a non-success status: the handler throws
FetchRespondsNotOk(s) ==
  /\ sessions[s].phase = "fetch"
  /\ LET c == StreamCatch([sessions[s] EXCEPT !.cause = "status"],
                          storage.geminiKey)
     IN Step(s, c.sess, c.events)

\* fetch rejects
FetchRejects(s) ==
  /\ sessions[s].phase = "fetch"
  /\ LET c == StreamCatch([sessions[s] EXCEPT !.cause = "network"],
                          storage.geminiKey)
     IN Step(s, c.sess, c.events)

\* fetch resolves with a successful response without a body stream: the
\* handler reads response.json()
FetchRespondsNoReader(s, outcome) ==
  /\ sessions[s].phase = "fetch"
  /\ LET sess == [sessions[s] EXCEPT !.cause = "noReader"] IN
     CASE outcome = "text" ->
            \E text \in SingleShotTexts :
              Step(s, [sess EXCEPT !.phase = "closed"],
                   <<NextEv(parseSummaryResponse(text)), CompleteEv>>)
       [] outcome = "invalid" ->
            Step(s, [sess EXCEPT !.phase = "closed"],
                 <<ErrorEv(InvalidResponseMsg)>>)
       [] outcome = "jsonRejects" ->
            LET c == StreamCatch(sess, storage.geminiKey)
            IN Step(s, c.sess, c.events)

\* reader.read() resolves with the next n bytes of the body, n one of sizes
ReadChunk(s, sizes) ==
  /\ sessions[s].phase = "read"
  /\ \E n \in sizes \cap (1..Len(sessions[s].rest)) :
       LET sess == sessions[s]
           r == ProcessChunk([buffer |-> sess.buffer, fullText |-> sess.fullText,
                              pending |-> sess.pending],
                             SubSeq(sess.rest, 1, n))
       IN Step(s,
               [sess EXCEPT !.rest = SubSeq(@, n + 1, Len(@)),
                            !.buffer = r.buffer, !.fullText = r.fullText,
                            !.pending = r.pending,
                            !.reads = IF @ > ReadsTracked THEN @ ELSE @ + 1,
                            !.phase = IF r.finished THEN "closed" ELSE "read"],
               NextEvents(r.emitted)
                 \o (IF r.finished THEN <<CompleteEv>> ELSE <<>>))

\* reader.read() resolves with the next n bytes of the body: the chunk is
\* decoded and appended to the buffer, and the scan of the buffer starts
ReadStart(s, sizes) ==
  /\ sessions[s].phase = "read"
  /\ \E n \in sizes \cap (1..Len(sessions[s].rest)) :
       LET sess == sessions[s]
           d == Decode(SubSeq(sess.rest, 1, n), sess.pending)
       IN Step(s,
               [sess EXCEPT !.rest = SubSeq(@, n + 1, Len(@)),
                            !.buffer = @ \o d.text,
                            !.pending = d.pending,
                            !.startIndex = 1,
                            !.atRead = [buffer |-> sess.buffer \o d.text,
                                        fullText |-> sess.fullText,
                                        received |-> sess.received],
                            !.reads = IF @ > ReadsTracked THEN @ ELSE @ + 1,
                            !.phase = "scan"],
               <<>>)

\* one pass of the scan loop of the chunk being processed
ScanStep(s) ==
  /\ sessions[s].phase = "scan"
  /\ LET sess == sessions[s]
         it == ScanIteration(sess.buffer, sess.startIndex, sess.fullText)
     IN Step(s,
             [sess EXCEPT !.buffer = it.buffer,
                          !.fullText = it.fullText,
                          !.startIndex =
                             IF it.exit = "continue" THEN it.startIndex ELSE 0,
                          !.phase = CASE it.exit = "continue" -> "scan"
                                      [] it.exit = "wait" -> "read"
                                      [] it.exit = "finished" -> "closed"],
             NextEvents(it.emitted)
               \o (IF it.exit = "finished" THEN <<CompleteEv>> ELSE <<>>))

\* reader.read() resolves with done after the last byte
ReadDone(s) ==
  /\ sessions[s].phase = "read"
  /\ sessions[s].rest = <<>>
  /\ Step(s, [sessions[s] EXCEPT !.phase = "closed"], <<CompleteEv>>)

\* reader.read() rejects
ReadFails(s) ==
  /\ sessions[s].phase = "read"
  /\ LET c == StreamCatch([sessions[s] EXCEPT !.cause = "read",
                                              !.partial = sessions[s].received],
                          storage.geminiKey)
     IN Step(s, c.sess, c.events)

\* the single-shot request of generateSummary ends
SingleShotResolves(s, outcome) ==
  /\ sessions[s].phase = "singleShot"
  /\ IF outcome = "text"
       THEN \E text \in SingleShotTexts :
              Step(s, [sessions[s] EXCEPT !.phase = "closed"],
                   <<NextEv(parseSummaryResponse(text)), CompleteEv>>)
       ELSE Step(s, [sessions[s] EXCEPT !.phase = "closed"],
                 <<ErrorEv(SummaryFailedMsg)>>)

\* ------------------------------------------------------- App.getTranscript
\* the single-shot request of the component's error callback ends
ComponentFallbackResolves(s, outcome) ==
  /\ sessions[s].compFallback = "pending"
  /\ sessions' = [sessions EXCEPT ![s].compFallback = "done"]
  /\ IF outcome = "text"
       THEN \E text \in SingleShotTexts :
              app' = [app EXCEPT
                        !.summary = parseSummaryResponse(text).summary,
                        !.headline = parseSummaryResponse(text).headline,
                        !.generatingSummary = FALSE]
       ELSE app' = [app EXCEPT !.error = SummaryFailedMsg,
                               !.generatingSummary = FALSE]
  /\ UNCHANGED <<storage, audio>>

CreditsExhaustedNever(st) == FALSE

\* the credits check of getTranscript: the stored value is there and is not
\* above zero
CreditsExhausted(st) == st.credits # "null" /\ st.credits = "none"

\* App.isButtonDisabled
isButtonDisabled(st) == st.credits # "null" /\ st.credits = "none"

\* getTranscript up to its await
GetTranscript(s, url) ==
  /\ Unused(s)
  /\ IF ~storage.apiKey
       THEN /\ app' = [app EXCEPT !.error = NoScrapeKeyMsg,
                                  !.showSettings = TRUE]
            /\ UNCHANGED <<storage, sessions, audio>>
     ELSE IF CreditsExhausted(storage)
       THEN UNCHANGED vars
     ELSE IF url = ""
       THEN /\ app' = [app EXCEPT !.error = NoUrlMsg]
            /\ UNCHANGED <<storage, sessions, audio>>
     ELSE LET stopped == stopSpeech(app, audio)
              reset == [stopped.app EXCEPT
                                   !.loading = TRUE,
                                   !.fetchingTranscript = TRUE,
                                   !.generatingSummary = FALSE,
                                   !.error = "",
                                   !.transcriptData = "null",
                                   !.summary = <<>>,
                                   !.headline = <<>>]
          IN IF url = "invalid"
               THEN /\ app' = [reset EXCEPT !.error = InvalidUrlMsg,
                                            !.loading = FALSE]
                    /\ sessions' = [sessions EXCEPT ![s] =
                         [NoSession EXCEPT !.owner = "app", !.phase = "closed"]]
                    /\ UNCHANGED storage
                    /\ audio' = stopped.audio
               ELSE /\ app' = reset
                    /\ sessions' = [sessions EXCEPT ![s] =
                         [NoSession EXCEPT !.owner = "app",
                                           !.phase = "transcript"]]
                    /\ UNCHANGED storage
                    /\ audio' = stopped.audio

\* the transcript request fails
TranscriptFails(s) ==
  /\ sessions[s].phase = "transcript"
  /\ app' = [app EXCEPT !.error = TranscriptFailedMsg, !.loading = FALSE]
  /\ sessions' = [sessions EXCEPT ![s].phase = "closed"]
  /\ UNCHANGED <<storage, audio>>

\* the transcript request answers: the rest of getTranscript
TranscriptResponds(s, transcriptEmpty, credits) ==
  /\ sessions[s].phase = "transcript"
  /\ storage' = [storage EXCEPT !.credits = credits]
  /\ UNCHANGED audio
  /\ LET a1 == [app EXCEPT
                  !.transcriptData =
                     IF transcriptEmpty THEN "empty" ELSE "nonempty",
                  !.fetchingTranscript = FALSE,
                  !.creditsRemaining = credits]
         sess == [sessions[s] EXCEPT !.transcriptEmpty = transcriptEmpty]
     IN
     IF transcriptEmpty
       THEN /\ app' = [a1 EXCEPT !.loading = FALSE]
            /\ sessions' = [sessions EXCEPT ![s] =
                              [sess EXCEPT !.phase = "closed"]]
     ELSE IF ~storage.geminiKey
       THEN /\ app' = [a1 EXCEPT !.error = NoGeminiKeyMsg,
                                 !.showSettings = TRUE,
                                 !.loading = FALSE]
            /\ sessions' = [sessions EXCEPT ![s] =
                              [sess EXCEPT !.phase = "closed"]]
     ELSE LET st == StartStream(sess, storage.geminiKey)
              d == Deliver([a1 EXCEPT !.generatingSummary = TRUE], st.sess,
                           storage.geminiKey, st.events)
          IN /\ app' = [d.app EXCEPT !.loading = FALSE]
             /\ sessions' = [sessions EXCEPT ![s] = d.sess]

\* ----------------------------------------------------------- audio actions
\* App.stripHtml; the texts of the model hold no markup, which is all it
\* removes
stripHtml(text) == SelectSeq(text, LAMBDA ch : ch \notin {"<", ">"})

\* the call a new generateAudio takes: the first unused one, 0 when all are
\* used
FreeAudio(au) ==
  IF \E c \in AudioIds : au.els[c].pc = "unused"
    THEN SetMin({c \in AudioIds : au.els[c].pc = "unused"})
    ELSE 0

QueueRoom(au, c, n) ==
  IF c = 0 THEN TRUE ELSE Len(au.els[c].queue) + n <= MaxQueued

generateAudioStartNoKeyCheck(a, au, hasKey, c, viaPlay) ==
  IF a.summary = <<>> \/ (a.hasAudio /\ a.currentAudio # 0)
       \/ Trim(stripHtml(a.summary)) = <<>>
    THEN [app |-> a, audio |-> au]
  ELSE [app |-> [a EXCEPT !.generatingAudio = TRUE],
        audio |-> [au EXCEPT !.els[c].pc = "synth",
                             !.els[c].viaPlay = viaPlay,
                             !.requests = @ + 1]]

\* App.generateAudio up to its first await, as the call c
generateAudioStart(a, au, hasKey, c, viaPlay) ==
  IF a.summary = <<>> \/ (a.hasAudio /\ a.currentAudio # 0)
       \/ Trim(stripHtml(a.summary)) = <<>>
    THEN [app |-> a, audio |-> au]
  ELSE IF ~hasKey
    THEN [app |-> [a EXCEPT !.error = NoTogetherKeyMsg], audio |-> au]
  ELSE [app |-> [a EXCEPT !.generatingAudio = TRUE],
        audio |-> [au EXCEPT !.els[c].pc = "synth",
                             !.els[c].viaPlay = viaPlay,
                             !.requests = @ + 1]]

\* App.playSpeech after its await of generateAudio
PlayAfterGenerate(a, au, granted) ==
  IF a.currentAudio # 0 /\ a.hasAudio
    THEN IF granted
           THEN [app |-> a,
                 audio |-> [au EXCEPT !.els[a.currentAudio] =
                                         ElementPlay(@, TRUE)]]
           ELSE [app |-> [a EXCEPT !.error = PlayFailedMsg], audio |-> au]
    ELSE [app |-> a, audio |-> au]

\* generateAudio returns: a playSpeech that awaited it goes on
Finish(a, au, c, granted) ==
  LET done == [au EXCEPT !.els[c].pc = "done"] IN
  IF au.els[c].viaPlay THEN PlayAfterGenerate(a, done, granted)
  ELSE [app |-> a, audio |-> done]

\* the catch block of generateAudio
Catch(a, au, c, msg, granted) ==
  Finish([a EXCEPT !.generatingAudio = FALSE, !.error = msg], au, c, granted)

\* generateAudio after the metadata wait: the handlers, currentAudio, the
\* media-session setup, whose exception the catch block gets, and the
\* automatic play()
Install(a, au, c, granted) ==
  LET a1 == [a EXCEPT !.currentAudio = c, !.hasAudio = TRUE,
                      !.generatingAudio = FALSE]
      au1 == [au EXCEPT !.els[c].handlers = "full"]
  IN IF au.session = "throws"
       THEN Catch(a1, au1, c, MediaSessionFailedMsg, granted)
     ELSE IF granted
       THEN [app |-> a1,
             audio |-> [au1 EXCEPT !.els[c] =
                          [ElementPlay(@, TRUE) EXCEPT !.pc = "autoplay"]]]
       ELSE Finish(a1, au1, c, FALSE)

\* the timeout of the metadata wait: it resolves when the element knows its
\* duration and rejects otherwise
MetadataTimeoutResolves(el) == el.metadata

Apply(r) ==
  /\ app' = r.app
  /\ audio' = r.audio
  /\ UNCHANGED <<storage, sessions>>

\* Settings.saveTogetherApiKey / App.saveInitialApiKey store the key
SaveTogetherKey ==
  /\ ~storage.togetherKey
  /\ storage' = [storage EXCEPT !.togetherKey = TRUE]
  /\ UNCHANGED <<app, sessions, audio>>

\* App.playSpeech
PlaySpeech(granted) ==
  LET c == FreeAudio(audio) IN
  /\ QueueRoom(audio, app.currentAudio, 1)
  /\ IF app.summary = <<>> THEN UNCHANGED vars
     ELSE IF app.isSpeaking /\ ~app.isPaused
       THEN Apply(pauseSpeech(app, audio))
     ELSE IF app.isPaused
       THEN Apply(resumeSpeech(app, audio, granted))
     ELSE /\ c # 0
          /\ LET st == stopSpeech(app, audio)
                 g == generateAudioStart(st.app, st.audio,
                                         storage.togetherKey, c, TRUE)
             IN IF g.audio.els[c].pc = "unused"
                  THEN Apply(PlayAfterGenerate(g.app, g.audio, granted))
                  ELSE Apply(g)

\* App.generateAudio called on its own
GenerateAudio ==
  LET c == FreeAudio(audio) IN
  /\ c # 0
  /\ Apply(generateAudioStart(app, audio, storage.togetherKey, c, FALSE))

\* App.stopSpeech called on its own: ngOnDestroy, the media-session handler
StopSpeech ==
  /\ QueueRoom(audio, app.currentAudio, 1)
  /\ Apply(stopSpeech(app, audio))

\* App.pauseSpeech called on its own: toggleSpeech, the media-session handler
PauseSpeech ==
  /\ QueueRoom(audio, app.currentAudio, 1)
  /\ Apply(pauseSpeech(app, audio))

\* App.resumeSpeech called on its own: toggleSpeech, the media-session handler
ResumeSpeech(granted) ==
  /\ QueueRoom(audio, app.currentAudio, 1)
  /\ Apply(resumeSpeech(app, audio, granted))

\* App.seekAudio: a click on the progress bar
SeekAudio(f) == Apply(seekAudio(app, audio, f))

\* the synthesis request answers with the audio: the object URL and the
\* element are created and the metadata wait starts
SynthResponds(c) ==
  /\ audio.els[c].pc = "synth"
  /\ audio' = [audio EXCEPT !.els[c].pc = "metadata",
                            !.els[c].created = TRUE,
                            !.els[c].handlers = "wait"]
  /\ UNCHANGED <<storage, app, sessions>>

\* the synthesis request fails
SynthFails(c, granted) ==
  /\ audio.els[c].pc = "synth"
  /\ Apply(Catch(app, audio, c, AudioFailedMsg, granted))

\* the element has read the metadata of its source
MetadataAvailable(c) ==
  /\ audio.els[c].pc = "metadata"
  /\ ~audio.els[c].metadata
  /\ ~audio.els[c].errored
  /\ audio' = [audio EXCEPT !.els[c].metadata = TRUE,
                            !.els[c].queue = Append(@, "loadedmetadata")]
  /\ UNCHANGED <<storage, app, sessions>>

\* the setTimeout of the metadata wait fires
MetadataTimeout(c, granted) ==
  /\ audio.els[c].pc = "metadata"
  /\ IF MetadataTimeoutResolves(audio.els[c])
       THEN Apply(Install([app EXCEPT !.duration = Duration(c)], audio, c,
                          granted))
       ELSE Apply(Catch(app, audio, c, MetadataFailedMsg, granted))

\* the element fails to load or to decode its source
ElementError(c) ==
  /\ audio.els[c].created
  /\ ~audio.els[c].errored
  /\ QueueRoom(audio, c, 1)
  /\ audio' = [audio EXCEPT !.els[c].errored = TRUE,
                            !.els[c].queue = Append(@, "error")]
  /\ UNCHANGED <<storage, app, sessions>>

\* playback reaches the end of the track: the element pauses itself and
\* fires pause, then ended
TrackEnds(c) ==
  /\ audio.els[c].created
  /\ ~audio.els[c].paused
  /\ ~audio.els[c].errored
  /\ QueueRoom(audio, c, 2)
  /\ audio' = [audio EXCEPT !.els[c].paused = TRUE,
                            !.els[c].position = Duration(c),
                            !.els[c].queue = @ \o <<"pause", "ended">>]
  /\ UNCHANGED <<storage, app, sessions>>

\* playback advances; the interval of startTimeUpdate or ontimeupdate copies
\* the position of currentAudio
TimeUpdate(c) ==
  /\ audio.els[c].created
  /\ ~audio.els[c].paused
  /\ ~audio.els[c].errored
  /\ audio.els[c].handlers = "full"
  /\ LET au == [audio EXCEPT !.els[c].position = 1] IN
     /\ audio' = au
     /\ app' = IF app.currentAudio # 0
                 THEN [app EXCEPT !.currentTime =
                         au.els[app.currentAudio].position]
                 ELSE app
  /\ UNCHANGED <<storage, sessions>>

\* the next queued media event of the element c is given to its handler
DeliverEvent(c, granted) ==
  /\ audio.els[c].queue # <<>>
  /\ LET e == Head(audio.els[c].queue)
         au == [audio EXCEPT !.els[c].queue = Tail(@)]
         el == au.els[c]
     IN
     CASE e = "loadedmetadata" ->
            IF el.pc = "metadata"
              THEN Apply(Install([app EXCEPT !.duration = Duration(c)], au, c,
                                 granted))
              ELSE Apply([app |-> [app EXCEPT !.duration = Duration(c)],
                          audio |-> au])
       [] e = "error" ->
            IF el.handlers = "full" THEN Apply(onerror(app, au, c))
            ELSE IF el.pc = "metadata"
              THEN Apply(Catch(app, au, c, AudioFailedMsg, granted))
            ELSE Apply([app |-> app, audio |-> au])
       [] e = "play" ->
            LET r == onplay(app, au) IN
            IF el.pc = "autoplay"
              THEN Apply(Finish(r.app, r.audio, c, granted))
              ELSE Apply(r)
       [] e = "pause" -> Apply(onpause(app, au))
       [] e = "ended" -> Apply(onended(app, au, c))

\* ------------------------------------------------------------ specifications
\* the component and direct consumers, over the small bodies
Next ==
  \/ SaveGeminiKey
  \/ ClearGeminiKey
  \/ \E s \in SessionIds :
       \/ \E url \in {"", "invalid", "valid"} : GetTranscript(s, url)
       \/ TranscriptFails(s)
       \/ \E e \in BOOLEAN, c \in {"none", "some"} : TranscriptResponds(s, e, c)
       \/ \E e \in BOOLEAN : DirectCall(s, e)
       \/ \E e \in BOOLEAN : DirectGenerateSummary(s, e)
       \/ FetchResponds(s, SmallBodies)
       \/ FetchRespondsNotOk(s)
       \/ FetchRejects(s)
       \/ \E o \in {"text", "invalid", "jsonRejects"} : FetchRespondsNoReader(s, o)
       \/ ReadChunk(s, {Len(TextRecord("a")), Len(sessions[s].rest)})
       \/ ReadDone(s)
       \/ ReadFails(s)
       \/ \E o \in SingleShotOutcomes : SingleShotResolves(s, o)
       \/ \E o \in SingleShotOutcomes : ComponentFallbackResolves(s, o)

Spec == Init /\ [][Next]_vars

\* one streaming session of a direct consumer, over every body
NextStream ==
  \/ \E e \in BOOLEAN : DirectCall(1, e)
  \/ FetchResponds(1, Bodies)
  \/ FetchRespondsNotOk(1)
  \/ FetchRejects(1)
  \/ \E o \in {"text", "invalid", "jsonRejects"} : FetchRespondsNoReader(1, o)
  \/ ReadChunk(1, 1..Len(sessions[1].rest))
  \/ ReadDone(1)
  \/ ReadFails(1)
  \/ \E o \in SingleShotOutcomes : SingleShotResolves(1, o)

\* the storage of a run that streams: the keys are there
InitStream ==
  /\ storage \in [apiKey : {TRUE}, geminiKey : BOOLEAN, togetherKey : {TRUE},
                  credits : {"null"}]
  /\ app = AppInit
  /\ sessions = [s \in SessionIds |-> NoSession]
  /\ audio = AudioInit

SpecStream == InitStream /\ [][NextStream]_vars

\* one streaming session of a direct consumer over the text bodies, each
\* chunk carrying one or two whole records
NextText ==
  \/ \E e \in BOOLEAN : DirectCall(1, e)
  \/ FetchResponds(1, TextBodies)
  \/ ReadChunk(1, {Len(TextRecord("a")), 2 * Len(TextRecord("a"))})
  \/ ReadDone(1)

SpecText == InitStream /\ [][NextText]_vars

\* one streaming session of a direct consumer over every body, the scan loop
\* of a chunk taken one pass at a time
NextScan ==
  \/ DirectCall(1, FALSE)
  \/ FetchResponds(1, Bodies)
  \/ ReadStart(1, 1..Len(sessions[1].rest))
  \/ ScanStep(1)
  \/ ReadDone(1)

SpecScan == InitStream /\ [][NextScan]_vars

\* the audio controller, with one way for a summary to arrive
NextAudio ==
  \/ GetTranscript(1, "valid")
  \/ TranscriptResponds(1, FALSE, "some")
  \/ FetchRespondsNoReader(1, "text")
  \/ SaveTogetherKey
  \/ \E g \in BOOLEAN : PlaySpeech(g)
  \/ GenerateAudio
  \/ StopSpeech
  \/ \E c \in AudioIds : SynthResponds(c)
  \/ \E c \in AudioIds, g \in BOOLEAN : SynthFails(c, g)
  \/ \E c \in AudioIds : MetadataAvailable(c)
  \/ \E c \in AudioIds, g \in BOOLEAN : MetadataTimeout(c, g)
  \/ \E c \in AudioIds : ElementError(c)
  \/ \E c \in AudioIds : TrackEnds(c)
  \/ \E c \in AudioIds : TimeUpdate(c)
  \/ \E c \in AudioIds, g \in BOOLEAN : DeliverEvent(c, g)

InitAudio ==
  /\ storage \in [apiKey : {TRUE}, geminiKey : {TRUE}, togetherKey : BOOLEAN,
                  credits : {"null"}]
  /\ app = AppInit
  /\ sessions = [s \in SessionIds |-> NoSession]
  /\ audio \in {[AudioInit EXCEPT !.session = m] : m \in MediaSessions}

SpecAudio == InitAudio /\ [][NextAudio]_vars

\* the first-launch prompt: the component after ngOnInit, over every content
\* of localStorage
NextPrompt ==
  \/ \E input \in KeyInputs : TypeKey(input)
  \/ SaveInitialApiKey
  \/ SkipStep

InitPrompt ==
  /\ storage \in [apiKey : BOOLEAN, geminiKey : BOOLEAN, togetherKey : BOOLEAN,
                  credits : {"null", "none", "some"}]
  /\ app = ngOnInit(AppInit, storage)
  /\ sessions = [s \in SessionIds |-> NoSession]
  /\ audio = AudioInit

SpecPrompt == InitPrompt /\ [][NextPrompt]_vars

\* the controls of the player: play, pause, resume, stop and the progress
\* bar, on a platform with a media session, every request answered
NextSeek ==
  \/ GetTranscript(1, "valid")
  \/ TranscriptResponds(1, FALSE, "some")
  \/ FetchRespondsNoReader(1, "text")
  \/ PlaySpeech(TRUE)
  \/ PauseSpeech
  \/ ResumeSpeech(TRUE)
  \/ StopSpeech
  \/ \E f \in 0..SeekSteps : SeekAudio(f)
  \/ \E c \in AudioIds : SynthResponds(c)
  \/ \E c \in AudioIds : MetadataAvailable(c)
  \/ \E c \in AudioIds : MetadataTimeout(c, TRUE)
  \/ \E c \in AudioIds : TrackEnds(c)
  \/ \E c \in AudioIds : TimeUpdate(c)
  \/ \E c \in AudioIds : DeliverEvent(c, TRUE)

InitSeek ==
  /\ storage \in [apiKey : {TRUE}, geminiKey : {TRUE}, togetherKey : {TRUE},
                  credits : {"null"}]
  /\ app = AppInit
  /\ sessions = [s \in SessionIds |-> NoSession]
  /\ audio = AudioInit

SpecSeek == InitSeek /\ [][NextSeek]_vars

\* ------------------------------------------------------------- properties
\* a session that streamed its body to the end without a transport failure
StreamedToEnd(s) ==
  /\ sessions[s].streamRequests = 1
  /\ sessions[s].cause = "none"
  /\ sessions[s].phase = "closed"

\* the results emitted when the whole body arrives as one chunk
OneChunkEmitted(body) == ProcessChunk(StreamStart, body).emitted

ContainsMarker(text, marker) ==
  \E i \in 1..Len(text) : MatchAt(text, i, marker)

\* some HEADLINE: marker is followed, somewhere, by a non-whitespace character
HeadlineFollowed(text) ==
  \E i \in 1..Len(text) :
    /\ MatchAt(text, i, HEADLINE_MARKER)
    /\ \E j \in (i + Len(HEADLINE_MARKER))..Len(text) : text[j] \notin Whitespace

\* C1: however the body is cut into chunks, a session that reads it to the
\* end gives its subscriber the same last result and the same terminal
\* notification as the delivery of the whole body in one chunk
C1_ChunkBoundariesIrrelevant ==
  \A s \in SessionIds :
    StreamedToEnd(s) =>
      LET ref == OneChunkEmitted(sessions[s].body) IN
      /\ sessions[s].terminal = "complete"
      /\ (sessions[s].received = <<>>) = (ref = <<>>)
      /\ ref # <<>> => Last(sessions[s].received) = Last(ref)

\* C2: within one session the summary of an emitted result is never shorter
\* than the summary of the result emitted before it
C2_SummaryLengthNeverDecreases ==
  \A s \in SessionIds :
    \A i \in 1..(Len(sessions[s].received) - 1) :
      Len(sessions[s].received[i + 1].summary)
        >= Len(sessions[s].received[i].summary)

\* a later getTranscript call has started
Superseded(s) ==
  /\ sessions[s].owner = "app"
  /\ \E t \in SessionIds : t > s /\ sessions[t].owner = "app"

\* the subscriber of session s gets a notification in this step
Notified(s) ==
  \/ Len(sessions'[s].received) > Len(sessions[s].received)
  \/ sessions'[s].terminal # sessions[s].terminal

\* C3: once a later getTranscript session has started, no emission,
\* completion or error of an earlier session's stream changes the summary,
\* headline, error or generatingSummary of the component
C3_NoCrossSessionLeak ==
  [][\A s \in SessionIds :
       (Superseded(s) /\ Notified(s)) =>
          /\ app'.summary = app.summary
          /\ app'.headline = app.headline
          /\ app'.error = app.error
          /\ app'.generatingSummary = app.generatingSummary]_vars

\* C4: after a non-success status of the streaming request the single-shot
\* request is issued once in the session, and when the stream then completes
\* the subscriber has received exactly one result
C4_SingleFallbackOnce ==
  \A s \in SessionIds :
    sessions[s].cause = "status" =>
      /\ sessions[s].singleRequests <= 1
      /\ sessions[s].terminal = "complete" => Len(sessions[s].received) = 1

\* C5: after a read failure that follows an emission no single-shot request
\* is issued, and the session ends with the error and the partial result last
C5_NoFallbackAfterEmission ==
  \A s \in SessionIds :
    (sessions[s].cause = "read" /\ sessions[s].partial # <<>>) =>
      /\ sessions[s].singleRequests = 0
      /\ sessions[s].phase = "closed" =>
           /\ sessions[s].terminal = "error"
           /\ Last(sessions[s].received) = Last(sessions[s].partial)

\* C6: a malformed fragment between two valid records does not stop the
\* stream: both records are emitted, in order
C6_MalformedFragmentSkipped ==
  \A s \in SessionIds :
    (StreamedToEnd(s) /\ sessions[s].body \in SandwichBodies) =>
      /\ Len(sessions[s].received) = 2
      /\ sessions[s].received[1].summary = <<"a">>
      /\ sessions[s].received[2].summary = <<"a", "b">>

\* C7: for an empty transcript the consumer of generateSummaryStream, and the
\* caller of generateSummary, gets the placeholder result once and then the
\* completion, with no request issued
C7_EmptyTranscriptPlaceholder ==
  \A s \in SessionIds :
    (sessions[s].owner \in {"direct", "single"} /\ sessions[s].transcriptEmpty
       /\ sessions[s].phase = "closed") =>
      /\ sessions[s].received = <<Placeholder>>
      /\ sessions[s].terminal = "complete"
      /\ sessions[s].streamRequests = 0
      /\ sessions[s].singleRequests = 0

\* C8: while the Gemini key is absent no step issues a request to the
\* generation provider, and a summarization of a non-empty transcript that
\* starts, or whose stream fails over, ends in an error given to the caller
C8_NoKeyFailsFast ==
  [][~storage.geminiKey =>
       \A s \in SessionIds :
         /\ sessions'[s].streamRequests = sessions[s].streamRequests
         /\ sessions'[s].singleRequests = sessions[s].singleRequests
         /\ (DirectCall(s, FALSE) \/ DirectGenerateSummary(s, FALSE))
              => sessions'[s].terminal = "error"
         /\ (\E c \in {"none", "some"} : TranscriptResponds(s, FALSE, c))
              => /\ app'.error = NoGeminiKeyMsg
                 /\ ~app'.loading
                 /\ sessions'[s].phase = "closed"
         /\ (sessions[s].phase \in {"fetch", "read"}
               /\ sessions'[s].phase \notin {"fetch", "read"}
               /\ sessions'[s].terminal # "complete")
              => /\ sessions'[s].terminal = "error"
                 /\ sessions[s].owner = "app" =>
                      (app'.error = NoGeminiKeyMsg /\ ~app'.generatingSummary)
    ]_vars

\* getTranscript got a non-empty transcript without a Gemini key: the error is
\* set and nothing was requested from the generation provider
C8_Witness ==
  \E s \in SessionIds :
    /\ ~storage.geminiKey
    /\ sessions[s].owner = "app"
    /\ app.transcriptData = "nonempty"
    /\ sessions[s].phase = "closed"
    /\ sessions[s].streamRequests = 0
    /\ sessions[s].singleRequests = 0
    /\ app.error = NoGeminiKeyMsg

\* the result a streaming session last emitted is derived from fullText
Streaming(s) ==
  /\ sessions[s].streamRequests = 1
  /\ sessions[s].cause = "none"
  /\ sessions[s].received # <<>>

\* C9 as stated: without the SUMMARY: marker the headline is empty and the
\* summary is the whole accumulated text, trimmed
C9_NoMarkerEmptyHeadline ==
  \A s \in SessionIds :
    (Streaming(s) /\ ~ContainsMarker(sessions[s].fullText, SUMMARY_MARKER)) =>
      /\ Last(sessions[s].received).summary = Trim(sessions[s].fullText)
      /\ Last(sessions[s].received).headline = <<>>

\* C9 amended: without the SUMMARY: marker the summary is the whole
\* accumulated text, trimmed; the headline is empty exactly when no HEADLINE:
\* marker is followed by a non-whitespace character
C9_NoMarkerWholeText ==
  \A s \in SessionIds :
    (Streaming(s) /\ ~ContainsMarker(sessions[s].fullText, SUMMARY_MARKER)) =>
      /\ Last(sessions[s].received).summary = Trim(sessions[s].fullText)
      /\ (Last(sessions[s].received).headline = <<>>)
           = ~HeadlineFollowed(sessions[s].fullText)

\* a text with a HEADLINE: prefix and no SUMMARY: marker has been emitted
C9_Witness ==
  \E s \in SessionIds :
    /\ Streaming(s)
    /\ ~ContainsMarker(sessions[s].fullText, SUMMARY_MARKER)
    /\ MatchAt(sessions[s].fullText, 1, HEADLINE_MARKER)
    /\ Last(sessions[s].received).headline = <<"a">>

CatsResult ==
  [headline |-> <<"C","a","t","s">>,
   summary |-> <<"C","a","t","s"," ","a","r","e"," ","g","r","e","a","t",".">>]

\* C10: the three deltas of the scenario, however their records are cut into
\* chunks, end with headline "Cats" and summary "Cats are great."
C10_ScenarioResult ==
  \A s \in SessionIds :
    (StreamedToEnd(s) /\ sessions[s].body = ScenarioBody) =>
      /\ sessions[s].received # <<>>
      /\ Last(sessions[s].received) = CatsResult
      /\ sessions[s].terminal = "complete"

\* the scenario's body delivered in exactly two chunks
C10_Witness ==
  \E s \in SessionIds :
    /\ StreamedToEnd(s)
    /\ sessions[s].body = ScenarioBody
    /\ sessions[s].reads = 2
    /\ Last(sessions[s].received) = CatsResult

\* a body whose first record carries finishReason STOP and is followed by
\* another piece
StopThenMore(body) == \E p \in Pieces \ {<<>>} : body = StopRecord \o p

\* C11: a session gets one terminal notification, which is never replaced,
\* and no result after it; a STOP record ends the session with the completion
\* whatever follows it in the buffer or in later chunks
C11_OneTerminalSignal ==
  /\ [](\A s \in SessionIds :
          /\ sessions[s].terminal # "none" => sessions[s].phase = "closed"
          /\ (StreamedToEnd(s) /\ StopThenMore(sessions[s].body)) =>
               /\ sessions[s].terminal = "complete"
               /\ Len(sessions[s].received) = 1)
  /\ [][\A s \in SessionIds :
          sessions[s].terminal # "none" =>
            /\ sessions'[s].terminal = sessions[s].terminal
            /\ sessions'[s].received = sessions[s].received]_vars

\* the STOP record completed the session while a text record was still unread
C11_Witness ==
  \E s \in SessionIds :
    /\ StreamedToEnd(s)
    /\ sessions[s].body = StopRecord \o TextRecord("a")
    /\ sessions[s].rest # <<>>
    /\ sessions[s].terminal = "complete"
    /\ Len(sessions[s].received) = 1

\* an artifact is live while its element exists with its object URL
Live(c) == audio.els[c].created /\ ~audio.els[c].revoked

\* C12: at most one audio artifact is live at any time, also when
\* generateAudio is entered again while an earlier call still awaits the
\* synthesis response or the metadata
C12_AtMostOneLiveArtifact ==
  Cardinality({c \in AudioIds : Live(c)}) <= 1

\* the controller is Idle: no artifact, nothing playing or paused, position 0
IdleFlags(a) ==
  /\ a.currentAudio = 0
  /\ ~a.hasAudio
  /\ ~a.isSpeaking
  /\ ~a.isPaused
  /\ a.currentTime = 0

NothingQueued(au) == \A c \in AudioIds : au.els[c].queue = <<>>

\* C13: stopSpeech leaves the controller Idle with the media-session
\* playbackState cleared once the queued media events are delivered: at once
\* when none is queued, and the events of the released element do not take
\* the controller out of Idle
C13_StopLeavesIdle ==
  [][/\ (StopSpeech /\ NothingQueued(audio')) =>
          (IdleFlags(app') /\ audio'.playbackState = "none")
     /\ \A c \in AudioIds :
          ((\E g \in BOOLEAN : DeliverEvent(c, g))
             /\ audio.els[c].revoked /\ IdleFlags(app)) =>
          (IdleFlags(app') /\ audio'.playbackState = "none")
    ]_vars

\* C14: stopSpeech applied to the state stopSpeech leaves changes nothing,
\* stopSpeech in an Idle state without timer changes nothing, and the state
\* it leaves is Idle with no artifact and no polling timer
C14_StopIdempotent ==
  [][StopSpeech =>
       /\ stopSpeech(app', audio') = [app |-> app', audio |-> audio']
       /\ IdleFlags(app')
       /\ ~app'.timeUpdateInterval
       /\ (IdleFlags(app) /\ ~app.timeUpdateInterval /\ ~app.generatingAudio)
            => (app' = app /\ audio' = audio)
    ]_vars

\* stopSpeech has released an element that was playing
C14_Witness ==
  \E c \in AudioIds :
    /\ audio.els[c].revoked
    /\ audio.els[c].position = 0
    /\ audio.els[c].queue = <<"pause">>
    /\ IdleFlags(app)
    /\ ~app.timeUpdateInterval

Playing(a) == a.isSpeaking /\ ~a.isPaused /\ a.currentAudio # 0

Paused(a) == a.isSpeaking /\ a.isPaused /\ a.currentAudio # 0

\* C15: with a summary shown, playSpeech while Playing pauses the element of
\* currentAudio and leaves the controller Paused; playSpeech while Paused,
\* its play request granted, restarts the same element, and the play event
\* of that element leaves the controller Playing; neither call issues a
\* synthesis request or changes currentAudio
C15_PlayToggles ==
  [][/\ \A g \in BOOLEAN :
          (PlaySpeech(g) /\ app.summary # <<>>) =>
            /\ Playing(app) =>
                 /\ Paused(app')
                 /\ audio'.els[app.currentAudio].paused
                 /\ app'.currentAudio = app.currentAudio
                 /\ audio'.requests = audio.requests
            /\ (Paused(app) /\ g) =>
                 /\ ~audio'.els[app.currentAudio].paused
                 /\ app'.currentAudio = app.currentAudio
                 /\ audio'.requests = audio.requests
     /\ \A c \in AudioIds :
          ((\E g \in BOOLEAN : DeliverEvent(c, g))
             /\ Head(audio.els[c].queue) = "play"
             /\ app.currentAudio = c) =>
            (Playing(app') /\ app'.currentAudio = c)
    ]_vars

\* playSpeech was called while Playing and again before the pause event was
\* delivered: the element of currentAudio plays again
C15_Witness ==
  /\ Paused(app)
  /\ ~audio.els[app.currentAudio].paused
  /\ audio.els[app.currentAudio].queue = <<"pause", "play">>
  /\ audio.requests = 1

\* generateAudio gets past its checks of the summary and of an existing
\* artifact
CanGenerate(a) ==
  /\ a.summary # <<>>
  /\ ~(a.hasAudio /\ a.currentAudio # 0)

\* C16: without the Together.ai key, a generateAudio that has a summary to
\* speak and no artifact sets the configuration error, issues no request,
\* creates no artifact and leaves generatingAudio false
C16_NoKeyNoRequest ==
  [][(GenerateAudio /\ ~storage.togetherKey /\ CanGenerate(app)) =>
       /\ app'.error = NoTogetherKeyMsg
       /\ audio' = audio
       /\ ~app'.generatingAudio
    ]_vars

\* generateAudio has been refused for the missing key
C16_Witness ==
  /\ ~storage.togetherKey
  /\ app.summary # <<>>
  /\ app.error = NoTogetherKeyMsg
  /\ audio.requests = 0
  /\ \A c \in AudioIds : ~audio.els[c].created

\* C17: when generateAudio fails after the object URL was created, the URL
\* is revoked and an audio-generation error is reported
C17_FailedHandleReleased ==
  [][\A c \in AudioIds :
       (audio.els[c].pc = "metadata" /\ audio'.els[c].pc = "done"
          /\ audio'.els[c].handlers = "wait") =>
         /\ audio'.els[c].revoked
         /\ app'.error \in {AudioFailedMsg, MetadataFailedMsg}
    ]_vars

\* C18: when the wait for the metadata expires without the metadata,
\* generation does not fail: the artifact becomes currentAudio and no
\* generation error is reported
C18_TimeoutKeepsArtifact ==
  [][\A c \in AudioIds :
       ((\E g \in BOOLEAN : MetadataTimeout(c, g)) /\ ~audio.els[c].metadata) =>
         /\ app'.currentAudio = c
         /\ app'.hasAudio
         /\ app'.error \notin {AudioFailedMsg, MetadataFailedMsg}
    ]_vars

\* C19: after the ended event the controller is as stopSpeech leaves it: no
\* artifact, nothing playing or paused, position 0, no polling timer, the
\* object URL revoked; and a playSpeech in that state issues a new synthesis
\* request
C19_EndedLikeStop ==
  [][/\ \A c \in AudioIds :
          ((\E g \in BOOLEAN : DeliverEvent(c, g))
             /\ Head(audio.els[c].queue) = "ended") =>
            /\ IdleFlags(app')
            /\ ~app'.timeUpdateInterval
            /\ audio'.els[c].revoked
            /\ audio'.playbackState = "none"
            /\ app' = [stopSpeech(app, audio).app EXCEPT
                         !.generatingAudio = app.generatingAudio]
     /\ \A g \in BOOLEAN :
          (PlaySpeech(g) /\ IdleFlags(app) /\ app.summary # <<>>
             /\ storage.togetherKey) =>
            /\ audio'.requests = audio.requests + 1
            /\ \E c \in AudioIds :
                 audio.els[c].pc = "unused" /\ audio'.els[c].pc = "synth"
    ]_vars

\* a track has played to its end and its artifact is released
C19_Witness ==
  \E c \in AudioIds :
    /\ audio.els[c].revoked
    /\ audio.els[c].position = Duration(c)
    /\ ~audio.els[c].errored
    /\ audio.els[c].queue = <<>>
    /\ IdleFlags(app)
    /\ audio.playbackState = "none"

\* C20: after a playback error event, and after the configuration error of
\* generateAudio, the controller is Idle with generatingAudio false, the
\* position reset, no polling timer and the handle released, an error is set
\* and no request is issued
C20_ErrorLeavesIdle ==
  [][/\ \A c \in AudioIds :
          ((\E g \in BOOLEAN : DeliverEvent(c, g))
             /\ Head(audio.els[c].queue) = "error"
             /\ audio.els[c].handlers = "full") =>
            /\ IdleFlags(app')
            /\ ~app'.generatingAudio
            /\ ~app'.timeUpdateInterval
            /\ audio'.els[c].revoked
            /\ app'.error = PlayFailedMsg
            /\ audio'.requests = audio.requests
     /\ (GenerateAudio /\ ~storage.togetherKey /\ CanGenerate(app)) =>
            /\ IdleFlags(app')
            /\ ~app'.generatingAudio
            /\ ~app'.timeUpdateInterval
            /\ app'.error = NoTogetherKeyMsg
            /\ audio'.requests = audio.requests
    ]_vars

\* C21: the position-polling timer is active only while Playing: whenever the
\* interval of startTimeUpdate is set, isSpeaking is true and isPaused is
\* false, also in the state pauseSpeech leaves
C21_PollingOnlyWhilePlaying ==
  app.timeUpdateInterval => (app.isSpeaking /\ ~app.isPaused)

\* C22: when generateAudio installs its artifact on a platform without a
\* media session, or with one whose calls fail, and the play request is
\* granted, the step reports no error, leaves the artifact as currentAudio
\* and starts its playback
C22_MediaSessionAdvisory ==
  [][\A c \in AudioIds :
       ((MetadataTimeout(c, TRUE) \/ DeliverEvent(c, TRUE))
          /\ audio.els[c].pc = "metadata" /\ audio'.els[c].handlers = "full"
          /\ audio.session # "present") =>
         /\ app'.error = app.error
         /\ app'.currentAudio = c
         /\ app'.hasAudio
         /\ ~audio'.els[c].paused
    ]_vars

\* C23: on a platform with a media session, once no media event is queued,
\* playbackState is "playing" when the controller is Playing, "paused" when
\* it is Paused and "none" when it is Idle
C23_MirrorFollowsState ==
  (NothingQueued(audio) /\ audio.session # "absent") =>
    /\ Playing(app) => audio.playbackState = "playing"
    /\ Paused(app) => audio.playbackState = "paused"
    /\ IdleFlags(app) => audio.playbackState = "none"

\* the streaming request of session s failed before any emission: the .catch
\* handler of generateSummaryStream has run
FailedBeforeEmission(s) ==
  /\ sessions[s].cause \in {"status", "network", "read"}
  /\ sessions[s].partial = <<>>

\* C24: when the stream fails before any emission and the single-shot
\* fallback gives no result, the subscriber gets the error notification; and
\* the component, once its callbacks have run and no later getTranscript has
\* started, shows an error message with generatingSummary false
C24_FailureSurfaces ==
  \A s \in SessionIds :
    /\ (FailedBeforeEmission(s) /\ sessions[s].phase = "closed"
          /\ sessions[s].received = <<>>) =>
         sessions[s].terminal = "error"
    /\ (FailedBeforeEmission(s) /\ sessions[s].owner = "app"
          /\ sessions[s].terminal = "error"
          /\ sessions[s].compFallback = "done"
          /\ ~Superseded(s)) =>
         (app.error # "" /\ ~app.generatingSummary)

\* bodies no record can be parsed from: the only candidate span is
\* malformed, or the only object is never closed
NoProgressBodies == { <<"{", "BAD", "}">>, <<"{", "BAD">> }

\* C25: a session that has read such a body to the end of the stream without
\* emitting a result ends with the error notification or has issued the
\* single-shot request; it does not end with a plain completion
C25_NoProgressEscalated ==
  \A s \in SessionIds :
    (sessions[s].body \in NoProgressBodies /\ sessions[s].rest = <<>>
       /\ sessions[s].phase = "closed" /\ sessions[s].received = <<>>) =>
      (sessions[s].terminal = "error" \/ sessions[s].singleRequests >= 1)

\* C26: with a stored credits value that is not above zero, getTranscript
\* starts no session, so no transcript and no generation request, and leaves
\* loading, transcriptData, summary and headline as they are; and
\* isButtonDisabled is true in exactly the states with such a value
C26_NoCreditsNoRequest ==
  /\ [](isButtonDisabled(storage) <=> storage.credits = "none")
  /\ [][\A s \in SessionIds, url \in {"", "invalid", "valid"} :
          (GetTranscript(s, url) /\ storage.credits = "none") =>
            /\ sessions' = sessions
            /\ app'.loading = app.loading
            /\ app'.transcriptData = app.transcriptData
            /\ app'.summary = app.summary
            /\ app'.headline = app.headline]_vars

\* a response has brought the credits to zero after a summary was shown, and
\* a further getTranscript can be asked for
C26_Witness ==
  /\ storage.apiKey
  /\ storage.credits = "none"
  /\ isButtonDisabled(storage)
  /\ app.creditsRemaining = "none"
  /\ app.summary # <<>>
  /\ Unused(2)

\* the bytes of the body the session has read
Consumed(s) ==
  SubSeq(sessions[s].body, 1, Len(sessions[s].body) - Len(sessions[s].rest))

\* C27: whenever the handler is at a read, or has ended, the scan of the
\* buffer as the last chunk left it has run to its end: the subscriber has
\* received, after the results it had, every result that buffer gives, in
\* the order of the buffer, and the buffer holds what the scan leaves; no
\* chunk is read while records of the chunk before it are still to be
\* extracted
C27_ChunksSequential ==
  \A s \in SessionIds :
    (sessions[s].streamRequests = 1 /\ sessions[s].cause = "none"
       /\ sessions[s].reads >= 1
       /\ sessions[s].phase \in {"read", "closed"}) =>
      LET at == sessions[s].atRead
          ref == ScanBuffer(at.buffer, 1, at.fullText, <<>>)
      IN /\ sessions[s].received = at.received \o ref.emitted
         /\ sessions[s].fullText = ref.fullText
         /\ sessions[s].buffer = ref.buffer

\* two records arrived in the first chunk and were both emitted before the
\* second chunk, with a third record, was read
C27_Witness ==
  /\ sessions[1].body = ScenarioBody
  /\ sessions[1].phase = "scan"
  /\ sessions[1].reads = 2
  /\ Len(sessions[1].received) = 2
  /\ sessions[1].buffer = TextRecord("are great.")

\* the characters at or after the scan start
Remaining(buffer, startIndex) == Len(buffer) - startIndex + 1

\* C28: the scan loop of a chunk ends: in every state the loop reaches, the
\* next pass leaves the loop, or removes a parsed object from the buffer and
\* restarts at its head, or moves the scan start forward in the unchanged
\* buffer; in both cases fewer characters are left to scan, of which there
\* are never less than none
C28_ScanTerminates ==
  \A s \in SessionIds :
    sessions[s].phase = "scan" =>
      LET sess == sessions[s]
          it == ScanIteration(sess.buffer, sess.startIndex, sess.fullText)
      IN /\ Remaining(sess.buffer, sess.startIndex) >= 0
         /\ it.exit = "continue" =>
              /\ \/ /\ Len(it.buffer) < Len(sess.buffer)
                    /\ it.startIndex = 1
                 \/ /\ it.buffer = sess.buffer
                    /\ it.startIndex > sess.startIndex
              /\ Remaining(it.buffer, it.startIndex)
                   < Remaining(sess.buffer, sess.startIndex)

\* the scan of a chunk with a malformed object between two records has
\* ended: the loop skipped the object and emitted both records
C28_Witness ==
  /\ sessions[1].body \in SandwichBodies
  /\ sessions[1].reads = 1
  /\ sessions[1].rest = <<>>
  /\ sessions[1].phase = "read"
  /\ Len(sessions[1].received) = 2

\* C29: a session whose successful response had no body stream has issued
\* the single-shot request once it is over, and when it ends with the
\* completion the subscriber has received exactly one result
C29_NoReaderFallsBack ==
  \A s \in SessionIds :
    (sessions[s].cause = "noReader" /\ sessions[s].phase = "closed") =>
      /\ sessions[s].singleRequests = 1
      /\ sessions[s].terminal = "complete" => Len(sessions[s].received) = 1

\* the call c of generateAudio is at one of its awaits after a stopSpeech:
\* generatingAudio is false again and no other call has been made
StoppedWhileGenerating(c) ==
  /\ audio.els[c].pc \in {"synth", "metadata"}
  /\ ~app.generatingAudio
  /\ \A d \in AudioIds \ {c} : audio.els[d].pc = "unused"

\* C30: after a stopSpeech during the awaits of a generateAudio call, and
\* as long as no new call is made, no step installs an artifact as
\* currentAudio or starts playback
C30_StopDuringGenerating ==
  [][\A c \in AudioIds :
       (StoppedWhileGenerating(c)
          /\ \A d \in AudioIds \ {c} : audio'.els[d].pc = "unused") =>
         /\ app'.currentAudio = 0
         /\ ~app'.hasAudio
         /\ audio'.els[c].paused
    ]_vars

\* the call c of generateAudio, awaited by playSpeech, ends in its catch
\* block in this step
GenerationFails(c) ==
  /\ audio.els[c].viaPlay
  /\ audio.els[c].pc \in {"synth", "metadata"}
  /\ audio'.els[c].pc = "done"
  /\ (audio'.els[c].handlers # "full" \/ audio.session = "throws")

\* C31: when the generateAudio call a playSpeech awaits fails, the step
\* starts no playback and leaves the controller Idle with no artifact: no
\* element plays, nothing is currentAudio and no request is issued
C31_FailedGenerationNoPlayback ==
  [][\A c \in AudioIds :
       GenerationFails(c) =>
         /\ IdleFlags(app')
         /\ \A d \in AudioIds : audio'.els[d].paused
         /\ audio'.requests = audio.requests
         /\ app'.error # ""
    ]_vars

\* C32: seekAudio changes nothing when there is no artifact or the duration
\* is zero; otherwise, for a click at the fraction f / SeekSteps, it sets the
\* position of the artifact and currentTime to that fraction of the
\* duration, which lies between 0 and the duration, and changes no other
\* field
C32_SeekWithinDuration ==
  [][\A f \in 0..SeekSteps :
       SeekAudio(f) =>
         IF app.currentAudio = 0 \/ app.duration = 0
           THEN UNCHANGED vars
           ELSE LET newTime == (f * app.duration) \div SeekSteps IN
                /\ app' = [app EXCEPT !.currentTime = newTime]
                /\ audio'.els[app.currentAudio].position = newTime
                /\ newTime >= 0 /\ newTime <= app.duration
    ]_vars

\* C33: pauseSpeech called when the controller is not Playing (no artifact,
\* not speaking, or paused already), and resumeSpeech called when isPaused is
\* not set or there is no artifact, change no field of the controller, no
\* element and no request count, and set no error
C33_PauseResumeNoOps ==
  [][/\ (PauseSpeech /\ ~Playing(app)) => UNCHANGED vars
     /\ (ResumeSpeech(TRUE) /\ (~app.isPaused \/ app.currentAudio = 0))
          => UNCHANGED vars
    ]_vars

\* an artifact that is installed and ended, its pause event not yet
\* delivered: the controller is Playing no more, and not yet paused
C33_Witness ==
  /\ app.currentAudio # 0
  /\ ~app.isPaused
  /\ audio.els[app.currentAudio].paused
  /\ audio.els[app.currentAudio].queue # <<>>
  /\ Head(audio.els[app.currentAudio].queue) = "pause"

\* the artifact c is installed and its automatic play was rejected: the
\* element never played, and the controller is neither speaking nor paused
AutoplayRejected(c) ==
  /\ app.summary # <<>>
  /\ app.currentAudio = c
  /\ app.hasAudio
  /\ ~app.isSpeaking
  /\ ~app.isPaused
  /\ audio.els[c].pc = "done"
  /\ audio.els[c].paused
  /\ audio.els[c].queue = <<>>
  /\ ~audio.els[c].errored
  /\ ~audio.els[c].revoked

\* C34: after a rejected automatic play the next playSpeech, its play request
\* granted, starts the same artifact: currentAudio is unchanged, the artifact
\* is not released and no synthesis request is issued
C34_RejectedAutoplayKeepsArtifact ==
  [][\A c \in AudioIds :
       (AutoplayRejected(c) /\ PlaySpeech(TRUE)) =>
         /\ app'.currentAudio = c
         /\ ~audio'.els[c].revoked
         /\ ~audio'.els[c].paused
         /\ audio'.requests = audio.requests
    ]_vars

\* stopSpeech was called while the artifact c was playing: c is released,
\* its pause event is the one media event still queued, the controller is
\* Idle and no generateAudio call is under way
StoppedWhilePlaying(c) ==
  /\ app.summary # <<>>
  /\ IdleFlags(app)
  /\ audio.els[c].revoked
  /\ audio.els[c].queue = <<"pause">>
  /\ \A d \in AudioIds :
       /\ audio.els[d].pc \in {"unused", "done"}
       /\ d # c => audio.els[d].queue = <<>>

\* C35: the delivery of the media event that follows a stop while Playing
\* leaves the controller neither speaking nor paused, so that the next
\* playSpeech takes neither of its toggle branches (pause while speaking,
\* resume while paused), which do nothing without an artifact, and goes on
\* to generate and play
C35_PlayAfterStopNotStuck ==
  [][\A c \in AudioIds :
       (StoppedWhilePlaying(c) /\ DeliverEvent(c, TRUE)) =>
         ~app'.isPaused /\ ~app'.isSpeaking
    ]_vars

\* C36: whenever the handler is at a read, or has ended, fullText is the text
\* the records of the bytes read so far carry, each record taken once, in
\* stream order: what one scan of those bytes appends
C36_EachRecordOnce ==
  \A s \in SessionIds :
    (sessions[s].streamRequests = 1 /\ sessions[s].cause = "none"
       /\ sessions[s].phase \in {"read", "closed"}) =>
      sessions[s].fullText = ProcessChunk(StreamStart, Consumed(s)).fullText

\* C37: once getTranscript has passed its input checks and every call of it
\* has settled, whatever the path (the transcript arrived, its request failed,
\* the URL was invalid, the Gemini key was missing), loading and
\* fetchingTranscript are both false
C37_FlagsClearedWhenSettled ==
  ((\E s \in SessionIds : sessions[s].owner = "app")
     /\ (\A s \in SessionIds : sessions[s].phase # "transcript")) =>
    ~app.loading /\ ~app.fetchingTranscript

\* a request of the session is unanswered: the transcript, the streaming
\* response or its body, the fallback of the service or of the component
RequestPending(s) ==
  \/ sessions[s].phase \notin {"idle", "closed"}
  \/ sessions[s].compFallback = "pending"

\* what a session has left to do: the requests it can still wait for, and
\* the bytes of the body it has not read
Remains(sess) ==
  (CASE sess.phase = "transcript" -> 400
     [] sess.phase = "fetch" -> 300
     [] sess.phase \in {"read", "scan"} -> 200
     [] sess.phase = "singleShot" -> 100
     [] OTHER -> 0)
    + Len(sess.rest)
    + (IF sess.compFallback = "pending" THEN 1 ELSE 0)

\* C38: with every request answered generatingSummary is false, whether the
\* stream completed, ended on a STOP record, failed with a fallback that
\* succeeded or with one that failed; and every answer brings a session
\* nearer to that: each step of a started session lowers what it has left
C38_GeneratingSummaryEnds ==
  /\ []((\A s \in SessionIds : ~RequestPending(s)) => ~app.generatingSummary)
  /\ [][\A s \in SessionIds :
          (sessions[s].owner # "none" /\ sessions'[s] # sessions[s]) =>
            Remains(sessions'[s]) < Remains(sessions[s])
       ]_vars

\* the stream of a getTranscript call failed, the fallback of the component
\* was answered, and generatingSummary is false
C38_Witness ==
  \E s \in SessionIds :
    /\ sessions[s].owner = "app"
    /\ sessions[s].terminal = "error"
    /\ sessions[s].compFallback = "done"
    /\ sessions[s].singleRequests >= 1
    /\ \A t \in SessionIds : ~RequestPending(t)
    /\ ~app.generatingSummary

====
